---- MODULE Spec2Model ----
(***************************************************************************)
(* anatsui core: the document tree (packages/core/src/document) and the    *)
(* multiplayer SyncEngine (packages/core/src/multiplayer) that mutates it  *)
(* from wire messages.                                                     *)
(*                                                                         *)
(* Rust values are modelled as follows.                                    *)
(*   Option<T>      None / Some(v)                                         *)
(*   ObjectId       [client_id, sequence]                                  *)
(*   String keys    order_index is a sequence of byte codes, so that the   *)
(*                  byte-wise comparison of str::cmp can be computed       *)
(*   JSON text      the JSON value it denotes (JNull, JNum, JStr, JBool,   *)
(*                  JArr, JObj), or JBad for text that is not JSON         *)
(*   f32            integers; F32 rounds to the nearest representable one  *)
(***************************************************************************)
EXTENDS Integers, Sequences, FiniteSets, TLC

\* SyncEngine fields (multiplayer/sync.rs:19-25)
VARIABLES client_id, sequence, pending_changes, cursors, connected
\* Document fields (document/mod.rs:64-68); tree is the DocumentTree record
VARIABLES tree, version
\* History: the operation that produced the current state, its argument,
\* its return value, and the scalars of the engine before it ran; and the
\* highest sequence number an emitted PropertyChange has carried (0: none);
\* and the number of tree operations run on the starting tree (of keys
\* inserted at one place, where fractional_midpoint is run alone).
VARIABLES last, emitted, ops

vars == <<client_id, sequence, pending_changes, cursors, connected, tree, version, last, emitted, ops>>

----------------------------------------------------------------------------
\* Bounds of the exploration
MaxSeq == 2
MaxVersion == 3
MaxOps == 3
MaxInsertions == 200

----------------------------------------------------------------------------
\* Option<T>
None == [some |-> FALSE]
Some(v) == [some |-> TRUE, v |-> v]

\* The cast of a parsed JSON number to f32 (round to nearest, ties to even);
\* integers up to 2^24 = 16777216 are exact, up to 2^25 the even ones are
\* representable.
F32(n) ==
    LET a == IF n < 0 THEN 0 - n ELSE n
        r == IF a <= 16777216 \/ a % 2 = 0 THEN a
             ELSE IF ((a - 1) \div 2) % 2 = 0 THEN a - 1 ELSE a + 1
    IN IF n < 0 THEN 0 - r ELSE r

----------------------------------------------------------------------------
\* JSON values
JBad == [j |-> "bad"]
JNull == [j |-> "null"]
JNum(n) == [j |-> "num", n |-> n]
JStr(s) == [j |-> "str", s |-> s]
JBool(b) == [j |-> "bool", b |-> b]
JArr(a) == [j |-> "arr", a |-> a]
JObj(m) == [j |-> "obj", m |-> m]

----------------------------------------------------------------------------
\* ObjectId (document/mod.rs:21-31)
ObjectId_new(c, s) == [client_id |-> c, sequence |-> s]

\* Property (document/properties.rs:9-68): the closed set of attribute kinds
Property ==
    {"X", "Y", "Width", "Height", "Rotation", "Opacity", "Visible", "Locked",
     "FillColor", "FillOpacity", "StrokeColor", "StrokeWidth", "StrokeOpacity",
     "StrokeAlign", "StrokeCap", "StrokeJoin", "CornerRadius", "Text",
     "FontFamily", "FontSize", "FontWeight", "FontStyle", "TextAlign",
     "LineHeight", "LetterSpacing", "BlurRadius", "ShadowColor",
     "ShadowOffsetX", "ShadowOffsetY", "ShadowBlur", "ShadowSpread",
     "LayoutMode", "LayoutDirection", "LayoutGap", "LayoutPadding",
     "LayoutAlign", "Name", "Description", "ParentId"}

\* The f32 values that are not finite (NaN and the infinities), kept as one
\* integer below every finite value the model uses
NaN == -2147483647

\* serde_json's Serialize of an f32: a number, and null for a value that is
\* not finite
f32_to_json(v) == IF v = NaN THEN JNull ELSE JNum(v)

\* serde_json's Deserialize of an f32: a JSON number cast to f32
f32_from_json(j) == IF j.j = "num" THEN Some(F32(j.n)) ELSE None

\* PropertyValue (document/properties.rs:72-80)
PV_Float(v) == [tag |-> "Float", v |-> v]
PV_Int(v) == [tag |-> "Int", v |-> v]
PV_Bool(v) == [tag |-> "Bool", v |-> v]
PV_String(v) == [tag |-> "String", v |-> v]
PV_Vec2(x, y) == [tag |-> "Vec2", v |-> <<x, y>>]
PV_Vec4(x, y, z, w) == [tag |-> "Vec4", v |-> <<x, y, z, w>>]

\* serde's encoding of a PropertyValue: {"<Variant>": <payload>}; a struct
\* payload (Color) is an object, a tuple payload (Vec2, Vec4) an array
PropertyValue_to_json(pv) ==
    JObj(pv.tag :> (CASE pv.tag = "Float" -> f32_to_json(pv.v)
                      [] pv.tag = "Int" -> JNum(pv.v)
                      [] pv.tag = "Bool" -> JBool(pv.v)
                      [] pv.tag = "Color" ->
                            JObj([c \in {"r", "g", "b", "a"} |-> f32_to_json(pv.v[c])])
                      [] pv.tag \in {"Vec2", "Vec4"} ->
                            JArr([i \in 1..Len(pv.v) |-> f32_to_json(pv.v[i])])
                      [] OTHER -> JStr(pv.v)))

\* serde_json::from_str::<PropertyValue>(text) (multiplayer/sync.rs:115):
\* Some(value) for an object with exactly one key naming a variant and a
\* payload of that variant's type, None otherwise.
PropertyValue_from_str(text) ==
    IF text.j # "obj" \/ Cardinality(DOMAIN text.m) # 1 THEN None
    ELSE LET tag == CHOOSE k \in DOMAIN text.m : TRUE
             body == text.m[tag]
             Floats(n) == /\ body.j = "arr"
                          /\ Len(body.a) = n
                          /\ \A i \in 1..n : f32_from_json(body.a[i]).some
         IN CASE tag = "Float" /\ body.j = "num" -> Some(PV_Float(F32(body.n)))
              [] tag = "Int" /\ body.j = "num" -> Some(PV_Int(body.n))
              [] tag = "Bool" /\ body.j = "bool" -> Some(PV_Bool(body.b))
              [] tag = "String" /\ body.j = "str" -> Some(PV_String(body.s))
              [] /\ tag = "Color"
                 /\ body.j = "obj"
                 /\ {"r", "g", "b", "a"} \subseteq DOMAIN body.m
                 /\ \A c \in {"r", "g", "b", "a"} : f32_from_json(body.m[c]).some ->
                    Some([tag |-> "Color",
                          v |-> [c \in {"r", "g", "b", "a"} |-> f32_from_json(body.m[c]).v]])
              [] tag = "Vec2" /\ Floats(2) ->
                    Some([tag |-> "Vec2", v |-> [i \in 1..2 |-> f32_from_json(body.a[i]).v]])
              [] tag = "Vec4" /\ Floats(4) ->
                    Some([tag |-> "Vec4", v |-> [i \in 1..4 |-> f32_from_json(body.a[i]).v]])
              [] OTHER -> None

----------------------------------------------------------------------------
\* Message (multiplayer/message.rs:9-79): the fields of each struct variant
\* and their Rust types; Ping and Pong are unit variants.
UnitVariants == {"Ping", "Pong"}
StructVariants ==
    {"Join", "JoinAck", "Leave", "CursorMove", "PropertyChange", "CreateObject",
     "DeleteObject", "MoveObject", "Ack", "SelectionChange", "Error"}

FieldTypes(variant) ==
    CASE variant = "Join" -> [document_id |-> "String", client_name |-> "String"]
      [] variant = "JoinAck" -> [client_id |-> "u32", document_state |-> "String"]
      [] variant = "Leave" -> [client_id |-> "u32"]
      [] variant = "CursorMove" -> [client_id |-> "u32", x |-> "f32", y |-> "f32"]
      [] variant = "PropertyChange" ->
            [client_id |-> "u32", object_id |-> "ObjectId", property |-> "Property",
             value |-> "String", sequence |-> "u64"]
      [] variant = "CreateObject" ->
            [client_id |-> "u32", object_id |-> "ObjectId", object_type |-> "String",
             parent_id |-> "ObjectId", order_index |-> "String", sequence |-> "u64"]
      [] variant = "DeleteObject" ->
            [client_id |-> "u32", object_id |-> "ObjectId", sequence |-> "u64"]
      [] variant = "MoveObject" ->
            [client_id |-> "u32", object_id |-> "ObjectId", new_parent_id |-> "ObjectId",
             order_index |-> "String", sequence |-> "u64"]
      [] variant = "Ack" -> [sequence |-> "u64"]
      [] variant = "SelectionChange" -> [client_id |-> "u32", selected_ids |-> "Vec<ObjectId>"]
      [] variant = "Error" -> [code |-> "u32", message |-> "String"]

\* serde's Serialize of one field
ObjectId_to_json(id) == JObj([client_id |-> JNum(id.client_id), sequence |-> JNum(id.sequence)])

Enc(ty, v) ==
    CASE ty \in {"u32", "u64"} -> JNum(v)
      [] ty = "f32" -> f32_to_json(v)
      [] ty \in {"String", "Property"} -> JStr(v)
      [] ty = "ObjectId" -> ObjectId_to_json(v)
      [] ty = "Vec<ObjectId>" -> JArr([i \in 1..Len(v) |-> ObjectId_to_json(v[i])])

\* serde's Deserialize of one field: Some(value), or None when the JSON value
\* has the wrong type or is negative for an unsigned type (the numbers of the
\* model stay far below the upper ends of u32, i32 and u64)
ObjectId_from_json(j) ==
    IF /\ j.j = "obj"
       /\ {"client_id", "sequence"} \subseteq DOMAIN j.m
       /\ \A f \in {"client_id", "sequence"} :
             j.m[f].j = "num" /\ j.m[f].n >= 0
    THEN Some(ObjectId_new(j.m.client_id.n, j.m.sequence.n))
    ELSE None

Dec(ty, j) ==
    CASE ty \in {"u32", "u64"} -> IF j.j = "num" /\ j.n >= 0 THEN Some(j.n) ELSE None
      [] ty = "f32" -> f32_from_json(j)
      [] ty = "String" -> IF j.j = "str" THEN Some(j.s) ELSE None
      [] ty = "Property" -> IF j.j = "str" /\ j.s \in Property THEN Some(j.s) ELSE None
      [] ty = "ObjectId" -> ObjectId_from_json(j)
      [] ty = "Vec<ObjectId>" ->
            IF j.j = "arr" /\ \A i \in 1..Len(j.a) : ObjectId_from_json(j.a[i]).some
            THEN Some([i \in 1..Len(j.a) |-> ObjectId_from_json(j.a[i]).v])
            ELSE None

\* Message::to_json (multiplayer/message.rs:83-85): a unit variant is the
\* string of its name, a struct variant {"<Variant>": {<field>: <value>, ...}}
to_json(message) ==
    IF message.type \in UnitVariants THEN JStr(message.type)
    ELSE LET ft == FieldTypes(message.type)
         IN JObj(message.type :> JObj([f \in DOMAIN ft |-> Enc(ft[f], message[f])]))

\* from_json_struct with a missing String field read as "" (as under
\* #[serde(default)])
from_json_struct_default(tag, body) ==
    LET ft == FieldTypes(tag)
        Field(f) == IF f \in DOMAIN body.m THEN Dec(ft[f], body.m[f])
                    ELSE IF ft[f] = "String" THEN Some("") ELSE None
    IN IF body.j = "obj" /\ \A f \in DOMAIN ft : Field(f).some
       THEN Some([f \in DOMAIN ft \cup {"type"} |-> IF f = "type" THEN tag ELSE Field(f).v])
       ELSE None

\* The struct-variant body of from_json: every declared field present and of
\* its type (fields the variant does not declare are ignored)
from_json_struct(tag, body) ==
    LET ft == FieldTypes(tag)
    IN IF /\ body.j = "obj"
          /\ DOMAIN ft \subseteq DOMAIN body.m
          /\ \A f \in DOMAIN ft : Dec(ft[f], body.m[f]).some
       THEN Some([f \in DOMAIN ft \cup {"type"} |->
                    IF f = "type" THEN tag ELSE Dec(ft[f], body.m[f]).v])
       ELSE None

\* Message::from_json (multiplayer/message.rs:88-90): serde_json::from_str(..).ok()
from_json(json) ==
    CASE json.j = "str" -> IF json.s \in UnitVariants THEN Some([type |-> json.s]) ELSE None
      [] json.j = "obj" /\ Cardinality(DOMAIN json.m) = 1 ->
            LET tag == CHOOSE k \in DOMAIN json.m : TRUE
                body == json.m[tag]
            IN CASE tag \in UnitVariants -> IF body = JNull THEN Some([type |-> tag]) ELSE None
                 [] tag \in StructVariants -> from_json_struct(tag, body)
                 [] OTHER -> None
      [] OTHER -> None

----------------------------------------------------------------------------
\* Node (document/node.rs:29-82)

\* The order key every node is created with, "0.5", as bytes
DefaultOrderIndex == <<48, 46, 53>>

\* Node::new (document/node.rs:39-46)
Node_new(id, node_type) ==
    [id |-> id, node_type |-> node_type, properties |-> <<>>,
     order_index |-> DefaultOrderIndex]

\* Node::set_property (document/node.rs:70-72): HashMap::insert
Node_set_property(node, property, value) ==
    [node EXCEPT !.properties =
        [q \in (DOMAIN node.properties) \cup {property} |->
            IF q = property THEN value ELSE node.properties[q]]]

\* Node::get_property (document/node.rs:65-67)
Node_get_property(node, property) ==
    IF property \in DOMAIN node.properties THEN Some(node.properties[property]) ELSE None

\* NodeType (document/node.rs:12-25)
NodeType ==
    {"Document", "Page", "Frame", "Group", "Rectangle", "Ellipse", "Line", "Vector",
     "Text", "Image", "Component", "Instance"}

\* serde's Serialize of a Node (document/node.rs:28-36): an object of its four
\* fields, the property map an object keyed by the property names
Node_to_json(node) ==
    JObj([id |-> ObjectId_to_json(node.id),
          node_type |-> JStr(node.node_type),
          properties |-> JObj([p \in DOMAIN node.properties |->
                                  PropertyValue_to_json(node.properties[p])]),
          order_index |-> JStr(node.order_index)])

\* serde's Deserialize of a Node: every field present and of its type
Node_from_json(j) ==
    IF /\ j.j = "obj"
       /\ {"id", "node_type", "properties", "order_index"} \subseteq DOMAIN j.m
       /\ ObjectId_from_json(j.m.id).some
       /\ j.m.node_type.j = "str"
       /\ j.m.node_type.s \in NodeType
       /\ j.m.properties.j = "obj"
       /\ DOMAIN j.m.properties.m \subseteq Property
       /\ \A p \in DOMAIN j.m.properties.m :
             PropertyValue_from_str(j.m.properties.m[p]).some
       /\ j.m.order_index.j = "str"
    THEN Some([id |-> ObjectId_from_json(j.m.id).v,
               node_type |-> j.m.node_type.s,
               properties |-> [p \in DOMAIN j.m.properties.m |->
                                  PropertyValue_from_str(j.m.properties.m[p]).v],
               order_index |-> j.m.order_index.s])
    ELSE None

----------------------------------------------------------------------------
\* DocumentTree (document/tree.rs:88-105)

\* str::cmp on order keys: byte-wise lexicographic, a proper prefix first
str_lt(a, b) ==
    \E i \in 1..Len(b) :
        /\ \A k \in 1..(i - 1) : k <= Len(a) /\ a[k] = b[k]
        /\ (i > Len(a) \/ a[i] < b[i])

\* DocumentTree::new (document/tree.rs:111-119); root_id is a random id
DocumentTree_new(random_id) ==
    [nodes |-> <<>>, root_id |-> random_id, children_map |-> <<>>, parent_map |-> <<>>]

\* insert keeping the node already stored under the id
insert_if_absent(t, node) ==
    [t EXCEPT !.root_id = IF DOMAIN t.nodes = {} THEN node.id ELSE @,
              !.nodes = @ @@ (node.id :> node)]

\* insert with the root replaced on every call
insert_always_root(t, node) ==
    [t EXCEPT !.root_id = node.id,
              !.nodes = (node.id :> node) @@ @]

\* DocumentTree::insert (document/tree.rs:170-179)
insert(t, node) ==
    [t EXCEPT !.root_id = IF DOMAIN t.nodes = {} THEN node.id ELSE @,
              !.nodes = (node.id :> node) @@ @]

\* The key set_parent's comparator reads for a child (document/tree.rs:246-247)
sort_key(nodes, id) ==
    IF id \in DOMAIN nodes THEN nodes[id].order_index ELSE DefaultOrderIndex

\* children.sort_by(..) (document/tree.rs:245-249): a stable sort by order key
RECURSIVE sort_by_order_index(_, _)
sort_by_order_index(nodes, children) ==
    IF children = <<>> THEN <<>>
    ELSE LET n == Len(children)
             x == children[n]
             front == sort_by_order_index(nodes, SubSeq(children, 1, n - 1))
             After(e) == str_lt(sort_key(nodes, x), sort_key(nodes, e))
             NotAfter(e) == ~After(e)
         IN SelectSeq(front, NotAfter) \o <<x>> \o SelectSeq(front, After)

\* retain that keeps every entry
retain_everything(children, x) == children

\* Vec::retain(|&id| id != x)
retain_ne(children, x) ==
    LET Keep(e) == e # x IN SelectSeq(children, Keep)

\* set_parent that leaves the child in its old parent's list
set_parent_no_detach(t, child_id, parent_id) ==
    LET pushed ==
            IF parent_id \in DOMAIN t.children_map
            THEN [t.children_map EXCEPT ![parent_id] = Append(@, child_id)]
            ELSE (parent_id :> <<child_id>>) @@ t.children_map
    IN [t EXCEPT !.parent_map = (child_id :> parent_id) @@ @,
                 !.children_map =
                     [pushed EXCEPT ![parent_id] = sort_by_order_index(t.nodes, @)]]

\* DocumentTree::set_parent (document/tree.rs:226-251)
set_parent(t, child_id, parent_id) ==
    LET detached ==
            IF /\ child_id \in DOMAIN t.parent_map
               /\ t.parent_map[child_id] \in DOMAIN t.children_map
            THEN [t.children_map EXCEPT ![t.parent_map[child_id]] = retain_ne(@, child_id)]
            ELSE t.children_map
        pushed ==
            IF parent_id \in DOMAIN detached
            THEN [detached EXCEPT ![parent_id] = Append(@, child_id)]
            ELSE (parent_id :> <<child_id>>) @@ detached
    IN [t EXCEPT !.parent_map = (child_id :> parent_id) @@ @,
                 !.children_map =
                     [pushed EXCEPT ![parent_id] = sort_by_order_index(t.nodes, @)]]

\* DocumentTree::parent (document/tree.rs:256-258)
parent(t, child_id) ==
    IF child_id \in DOMAIN t.parent_map THEN Some(t.parent_map[child_id]) ELSE None

\* DocumentTree::children (document/tree.rs:264-269)
children(t, parent_id) ==
    IF parent_id \in DOMAIN t.children_map THEN t.children_map[parent_id] ELSE <<>>

\* A map without the entry for key k (HashMap::remove)
without(m, k) == [x \in (DOMAIN m) \ {k} |-> m[x]]

\* remove and its loop over the listed children call each other
RECURSIVE remove(_, _), remove_each(_, _)

\* remove leaving the node record of the removed id in the node mapping
remove_keeping_node(t, id) ==
    LET unlinked ==
            IF id \in DOMAIN t.parent_map
            THEN [t EXCEPT !.parent_map = without(@, id),
                           !.children_map =
                               IF t.parent_map[id] \in DOMAIN @
                               THEN [@ EXCEPT ![t.parent_map[id]] = retain_ne(@, id)]
                               ELSE @]
            ELSE t
    IN IF id \in DOMAIN unlinked.children_map
       THEN remove_each([unlinked EXCEPT !.children_map = without(@, id)],
                        unlinked.children_map[id])
       ELSE unlinked

\* DocumentTree::remove (document/tree.rs:194-211): unlink id from its parent,
\* drop its child list and remove each listed child in turn, then drop the node
remove(t, id) ==
    LET unlinked ==
            IF id \in DOMAIN t.parent_map
            THEN [t EXCEPT !.parent_map = without(@, id),
                           !.children_map =
                               IF t.parent_map[id] \in DOMAIN @
                               THEN [@ EXCEPT ![t.parent_map[id]] = retain_ne(@, id)]
                               ELSE @]
            ELSE t
        emptied ==
            IF id \in DOMAIN unlinked.children_map
            THEN remove_each([unlinked EXCEPT !.children_map = without(@, id)],
                             unlinked.children_map[id])
            ELSE unlinked
    IN [emptied EXCEPT !.nodes = without(@, id)]

\* remove leaving the listed children in place
remove_each_skipped(t, ids) == t

\* for child_id in children { self.remove(child_id) } (document/tree.rs:204-206)
remove_each(t, ids) ==
    IF ids = <<>> THEN t ELSE remove_each(remove(t, Head(ids)), Tail(ids))

\* set_order_index writing the key to every node that has the node's parent
set_order_index_siblings(t, id, index) ==
    [t EXCEPT !.nodes =
        [n \in DOMAIN @ |->
            IF n = id \/ (id \in DOMAIN t.parent_map /\ n \in DOMAIN t.parent_map
                          /\ t.parent_map[n] = t.parent_map[id])
            THEN [@[n] EXCEPT !.order_index = index]
            ELSE @[n]]]

\* Node::set_order_index through the tree's node (document/node.rs:60-62)
set_order_index(t, id, index) ==
    IF id \in DOMAIN t.nodes THEN [t EXCEPT !.nodes[id].order_index = index] ELSE t

----------------------------------------------------------------------------
\* fractional_midpoint (document/tree.rs:408-420). An order key is a string,
\* kept as its bytes; a parsed key is [int, frac] with frac its first
\* FracDigits fraction digits. The arithmetic is decimal and exact: for keys
\* of at most FracDigits fraction digits the f64 sum and halving are off by
\* less than half a unit of the last printed digit, so "{:.15}" prints the
\* exact decimal midpoint whenever that has at most FracDigits digits.

FracDigits == 15
Dot == 46
Zero == 48

IsDigit(b) == b >= Zero /\ b <= Zero + 9

\* The position of the decimal point of s, Len(s) + 1 when it has none
dot_position(s) ==
    IF \E i \in 1..Len(s) : s[i] = Dot
    THEN CHOOSE i \in 1..Len(s) : s[i] = Dot /\ \A k \in 1..(i - 1) : s[k] # Dot
    ELSE Len(s) + 1

RECURSIVE int_value(_)
int_value(digits) ==
    IF digits = <<>> THEN 0
    ELSE int_value(SubSeq(digits, 1, Len(digits) - 1)) * 10 + (digits[Len(digits)] - Zero)

\* str::parse::<f64> on a plain decimal (digits, an optional point, digits);
\* None for any other text, which the callers replace by their default
parse_f64(s) ==
    LET p == dot_position(s)
        well_formed ==
            /\ \A i \in 1..Len(s) : i # p => IsDigit(s[i])
            /\ \E i \in 1..Len(s) : IsDigit(s[i])
    IN IF well_formed
       THEN Some([int |-> int_value(SubSeq(s, 1, p - 1)),
                  frac |-> [i \in 1..FracDigits |->
                               IF p + i <= Len(s) THEN s[p + i] - Zero ELSE 0]])
       ELSE None

\* The carry out of fraction digit i + 1 into digit i when a and b are added
RECURSIVE carry_into(_, _, _)
carry_into(a, b, i) ==
    IF i = FracDigits THEN 0
    ELSE (a.frac[i + 1] + b.frac[i + 1] + carry_into(a, b, i + 1)) \div 10

\* a_val + b_val
decimal_add(a, b) ==
    [int |-> a.int + b.int + carry_into(a, b, 0),
     frac |-> [i \in 1..FracDigits |-> (a.frac[i] + b.frac[i] + carry_into(a, b, i)) % 10]]

\* The digit before fraction digit i (the integer part before the first)
digit_before(v, i) == IF i = 1 THEN v.int ELSE v.frac[i - 1]

\* v / 2.0 cut after FracDigits digits, and whether half a unit was cut off
decimal_half(v) ==
    [int |-> v.int \div 2,
     frac |-> [i \in 1..FracDigits |-> ((digit_before(v, i) % 2) * 10 + v.frac[i]) \div 2]]

half_cut_off(v) == v.frac[FracDigits] % 2 = 1

\* One unit of the last fraction digit
last_unit == [int |-> 0, frac |-> [i \in 1..FracDigits |-> IF i = FracDigits THEN 1 ELSE 0]]

\* (a_val + b_val) / 2.0 as "{:.15}" rounds it: to nearest, a tie to even
decimal_midpoint(a, b) ==
    LET total == decimal_add(a, b)
        half == decimal_half(total)
    IN IF half_cut_off(total) /\ half.frac[FracDigits] % 2 = 1
       THEN decimal_add(half, last_unit)
       ELSE half

RECURSIVE int_bytes(_)
int_bytes(n) == IF n < 10 THEN <<Zero + n>> ELSE int_bytes(n \div 10) \o <<Zero + (n % 10)>>

\* format!("{:.15}", mid)
format_15(v) == int_bytes(v.int) \o <<Dot>> \o [i \in 1..FracDigits |-> Zero + v.frac[i]]

decimal_zero == [int |-> 0, frac |-> [i \in 1..FracDigits |-> 0]]
decimal_one == [int |-> 1, frac |-> [i \in 1..FracDigits |-> 0]]

\* fractional_midpoint (document/tree.rs:408-420)
fractional_midpoint(a, b) ==
    LET a_val == IF parse_f64(a).some THEN parse_f64(a).v ELSE decimal_zero
        b_val == IF parse_f64(b).some THEN parse_f64(b).v ELSE decimal_one
    IN format_15(decimal_midpoint(a_val, b_val))

\* Every key fractional_midpoint can return for a and b: when the exact
\* midpoint ends half a unit past the last printed digit, the error of the f64
\* parse and sum (below a fifth of a unit) decides which neighbor is printed,
\* and both are taken as possible
fractional_midpoints(a, b) ==
    LET a_val == IF parse_f64(a).some THEN parse_f64(a).v ELSE decimal_zero
        b_val == IF parse_f64(b).some THEN parse_f64(b).v ELSE decimal_one
        total == decimal_add(a_val, b_val)
        half == decimal_half(total)
    IN IF half_cut_off(total)
       THEN {format_15(half), format_15(decimal_add(half, last_unit))}
       ELSE {format_15(half)}

----------------------------------------------------------------------------
\* DocumentTree::move_before and move_after (document/tree.rs:291-349)

\* children.iter().position(|&id| id == x): the 0-based index, None when absent
position(list, x) ==
    IF \E i \in 1..Len(list) : list[i] = x
    THEN Some((CHOOSE i \in 1..Len(list) : list[i] = x /\ \A k \in 1..(i - 1) : list[k] # x) - 1)
    ELSE None

\* children.get(i).and_then(|&id| self.nodes.get(&id)).map(order_index)
\* .unwrap_or(default), for a 0-based i
neighbor_index(t, list, i, default) ==
    IF i >= 0 /\ i < Len(list) /\ list[i + 1] \in DOMAIN t.nodes
    THEN t.nodes[list[i + 1]].order_index
    ELSE default

\* The key move_before computes for the node it moves (document/tree.rs:296-311)
before_key(t, list, before_id) ==
    LET before_idx == position(list, before_id).v
        before_index == sort_key(t.nodes, before_id)
        prev_index == IF before_idx > 0 THEN neighbor_index(t, list, before_idx - 1, <<Zero>>)
                      ELSE <<Zero>>
    IN fractional_midpoint(prev_index, before_index)

\* The key move_after computes for the node it moves (document/tree.rs:330-341)
after_key(t, list, after_id) ==
    LET after_idx == position(list, after_id).v
        after_index == sort_key(t.nodes, after_id)
        next_index == neighbor_index(t, list, after_idx + 1, <<Zero + 1>>)
    IN fractional_midpoint(after_index, next_index)

\* DocumentTree::move_before (document/tree.rs:291-320)
move_before(t, node_id, before_id) ==
    IF before_id \in DOMAIN t.parent_map
    THEN LET moved == set_parent(t, node_id, t.parent_map[before_id])
             list == moved.children_map[t.parent_map[before_id]]
         IN IF position(list, before_id).some
            THEN set_order_index(moved, node_id, before_key(moved, list, before_id))
            ELSE moved
    ELSE t

\* DocumentTree::move_after (document/tree.rs:325-349)
move_after(t, node_id, after_id) ==
    IF after_id \in DOMAIN t.parent_map
    THEN LET moved == set_parent(t, node_id, t.parent_map[after_id])
             list == moved.children_map[t.parent_map[after_id]]
         IN IF position(list, after_id).some
            THEN set_order_index(moved, node_id, after_key(moved, list, after_id))
            ELSE moved
    ELSE t

----------------------------------------------------------------------------
\* Document (document/mod.rs:64-274), as the record [tree, version]

\* The ids ObjectId::random() yields for the root and the first page, an id no
\* node of the document has, and the id DocumentTree::new draws
RootId == ObjectId_new(1, 1)
PageId == ObjectId_new(1, 2)
AbsentId == ObjectId_new(2, 1)
UnusedId == ObjectId_new(0, 0)

\* Document::new (document/mod.rs:74-94)
Document_new ==
    LET t0 == DocumentTree_new(UnusedId)
        t1 == insert(t0, Node_new(RootId, "Document"))
        page == Node_set_property(Node_new(PageId, "Page"), "Name", PV_String("Page 1"))
        t2 == insert(t1, page)
    IN [tree |-> set_parent(t2, PageId, RootId), version |-> 1]

\* set_node_property creating a node for an id the tree does not hold
set_node_property_upsert(doc, id, property, value) ==
    LET node == IF id \in DOMAIN doc.tree.nodes THEN doc.tree.nodes[id]
                ELSE Node_new(id, "Rectangle")
    IN [tree |-> [doc.tree EXCEPT !.nodes =
                     (id :> Node_set_property(node, property, value)) @@ @],
        version |-> doc.version + 1]

\* Document::set_node_property (document/mod.rs:252-257)
set_node_property(doc, id, property, value) ==
    IF id \in DOMAIN doc.tree.nodes
    THEN [tree |-> [doc.tree EXCEPT !.nodes[id] = Node_set_property(@, property, value)],
          version |-> doc.version + 1]
    ELSE doc

\* Document::set_node_x (document/mod.rs:220-225)
set_node_x(doc, id, x) ==
    IF id \in DOMAIN doc.tree.nodes
    THEN [tree |-> [doc.tree EXCEPT !.nodes[id] = Node_set_property(@, "X", PV_Float(x))],
          version |-> doc.version + 1]
    ELSE doc

\* DocumentTree::first_page (document/tree.rs:275-277): the first child of
\* the root
first_page(t) ==
    IF children(t, t.root_id) = <<>> THEN None ELSE Some(children(t, t.root_id)[1])

\* Color::new (document/properties.rs:95-97); the f32 components are kept as
\* the tenths their decimal literals in the source name (8 is 0.8, 10 is 1.0)
Color_new(r, g, b, a) == [r |-> r, g |-> g, b |-> b, a |-> a]

\* PropertyValue::Color (document/properties.rs:72-80)
PV_Color(c) == [tag |-> "Color", v |-> c]

\* A node with its position and size set (document/mod.rs:118-121, 140-143)
with_bounds(node, x, y, width, height) ==
    LET n1 == Node_set_property(node, "X", PV_Float(x))
        n2 == Node_set_property(n1, "Y", PV_Float(y))
        n3 == Node_set_property(n2, "Width", PV_Float(width))
    IN Node_set_property(n3, "Height", PV_Float(height))

\* Document::create_frame (document/mod.rs:114-133); frame_id is the id
\* ObjectId::random() returned
create_frame(doc, frame_id, x, y, width, height) ==
    LET frame == Node_set_property(
                     with_bounds(Node_new(frame_id, "Frame"), x, y, width, height),
                     "Name", PV_String("Frame"))
        inserted == insert(doc.tree, frame)
    IN [tree |-> IF first_page(inserted).some
                 THEN set_parent(inserted, frame_id, first_page(inserted).v)
                 ELSE inserted,
        version |-> doc.version + 1]

\* create_rectangle parenting the rectangle to the first page, as create_frame
\* does
create_rectangle_on_first_page(doc, rect_id, parent_id, x, y, width, height) ==
    LET made == create_frame(doc, rect_id, x, y, width, height)
    IN [made EXCEPT !.tree.nodes[rect_id] =
           Node_set_property(
               with_bounds(Node_new(rect_id, "Rectangle"), x, y, width, height),
               "FillColor", PV_Color(Color_new(8, 8, 8, 10)))]

\* Document::create_rectangle (document/mod.rs:136-151); rect_id is the id
\* ObjectId::random() returned
create_rectangle(doc, rect_id, parent_id, x, y, width, height) ==
    LET rect == Node_set_property(
                    with_bounds(Node_new(rect_id, "Rectangle"), x, y, width, height),
                    "FillColor", PV_Color(Color_new(8, 8, 8, 10)))
    IN [tree |-> set_parent(insert(doc.tree, rect), rect_id, parent_id),
        version |-> doc.version + 1]

\* Document::delete_node (document/mod.rs:260-263)
delete_node(doc, id) ==
    [tree |-> remove(doc.tree, id), version |-> doc.version + 1]

\* The document of the current state
document == [tree |-> tree, version |-> version]

----------------------------------------------------------------------------
\* UserCursor and the user colors (multiplayer/mod.rs:33-99)

USER_COLORS ==
    <<"#F24E1E", "#A259FF", "#1ABCFE", "#0ACF83", "#FF7262", "#FFC700", "#00C2FF", "#C7B9FF">>

\* get_user_color (multiplayer/mod.rs:97-99)
get_user_color(id) == USER_COLORS[(id % Len(USER_COLORS)) + 1]

\* UserCursor::new (multiplayer/mod.rs:47-55)
UserCursor_new(id, name, color) ==
    [client_id |-> id, name |-> name, color |-> color, x |-> 0, y |-> 0]

\* UserCursor::set_position (multiplayer/mod.rs:77-80)
set_position(cursor, x, y) == [cursor EXCEPT !.x = x, !.y = y]

\* format!("User {}", client_id) (multiplayer/sync.rs:104)
user_name(id) == <<"User ", id>>

----------------------------------------------------------------------------
\* SyncEngine (multiplayer/sync.rs)

\* The record kept in last for the operation just run: pre tells whether the
\* engine had an identity, was connected and had moved its counter before it,
\* and which peers had a cursor;
\* removed is the set of (object, property) keys whose pending entries the
\* operation retired (for a tree remove, the ids of the parent cycle the
\* removed id was on), and prev_removed, kept for a PropertyChange only, the
\* keys that the operation before it retired.
Last(op, arg, ret, removed) ==
    [op |-> op, arg |-> arg, ret |-> ret,
     pre |-> [identified |-> client_id.some, connected |-> connected,
              counted |-> sequence > 0, peers |-> DOMAIN cursors],
     removed |-> removed, prev_removed |-> {}]

\* has_pending_change looking at the most recent pending entry only
has_pending_change_latest(object_id, property) ==
    /\ pending_changes # <<>>
    /\ pending_changes[Len(pending_changes)].object_id = object_id
    /\ pending_changes[Len(pending_changes)].property = property

\* SyncEngine::has_pending_change (multiplayer/sync.rs:138-140)
has_pending_change(object_id, property) ==
    \E i \in 1..Len(pending_changes) :
        pending_changes[i].object_id = object_id /\ pending_changes[i].property = property

\* set_connected without the reset of client_id
SetConnectedKeepsIdentity(c) ==
    /\ connected' = c
    /\ UNCHANGED <<client_id, sequence, pending_changes, cursors, tree, version, emitted>>
    /\ UNCHANGED ops
    /\ last' = Last("set_connected", c, None, {})

\* set_connected starting the sequence counter again on a disconnect
SetConnectedResetsCounter(c) ==
    /\ connected' = c
    /\ client_id' = IF ~c THEN None ELSE client_id
    /\ sequence' = IF ~c THEN 0 ELSE sequence
    /\ UNCHANGED <<pending_changes, cursors, tree, version, emitted>>
    /\ UNCHANGED ops
    /\ last' = Last("set_connected", c, None, {})

\* SyncEngine::set_connected (multiplayer/sync.rs:48-53)
SetConnected(c) ==
    /\ connected' = c
    /\ client_id' = IF ~c THEN None ELSE client_id
    /\ UNCHANGED <<sequence, pending_changes, cursors, tree, version, emitted>>
    /\ UNCHANGED ops
    /\ last' = Last("set_connected", c, None, {})

\* SyncEngine::create_join_message (multiplayer/sync.rs:56-61)
CreateJoinMessage(document_id, client_name) ==
    /\ UNCHANGED <<client_id, sequence, pending_changes, cursors, connected, tree, version,
                   emitted>>
    /\ UNCHANGED ops
    /\ last' = Last("create_join_message", <<document_id, client_name>>,
                    Some(to_json([type |-> "Join", document_id |-> document_id,
                                  client_name |-> client_name])), {})

\* SyncEngine::create_cursor_message (multiplayer/sync.rs:64-72)
CreateCursorMessage(x, y) ==
    /\ UNCHANGED <<client_id, sequence, pending_changes, cursors, connected, tree, version,
                   emitted>>
    /\ UNCHANGED ops
    /\ last' = Last("create_cursor_message", <<x, y>>,
                    IF client_id.some
                    THEN Some(to_json([type |-> "CursorMove", client_id |-> client_id.v,
                                       x |-> x, y |-> y]))
                    ELSE None, {})

\* The PropertyChange message create_property_change_message builds
\* (multiplayer/sync.rs:78-84) for counter value seq
property_change_message(id, object_id, property, value, seq) ==
    [type |-> "PropertyChange", client_id |-> id, object_id |-> object_id,
     property |-> property, value |-> value, sequence |-> seq]

\* create_property_change_message tagging the message before the increment
CreatePropertyChangeMessageStaleTag(object_id, property, value) ==
    /\ client_id.some => sequence < MaxSeq
    /\ sequence' = IF client_id.some THEN sequence + 1 ELSE sequence
    /\ emitted' = IF client_id.some THEN sequence ELSE emitted
    /\ UNCHANGED <<client_id, pending_changes, cursors, connected, tree, version>>
    /\ UNCHANGED ops
    /\ last' = Last("create_property_change_message", <<object_id, property, value>>,
                    IF client_id.some
                    THEN Some(to_json(property_change_message(client_id.v, object_id, property,
                                                              value, sequence)))
                    ELSE None, {})

\* create_property_change_message incrementing before it looks at client_id
CreatePropertyChangeMessageEagerIncrement(object_id, property, value) ==
    /\ sequence < MaxSeq
    /\ sequence' = sequence + 1
    /\ emitted' = IF client_id.some THEN sequence + 1 ELSE emitted
    /\ UNCHANGED <<client_id, pending_changes, cursors, connected, tree, version>>
    /\ UNCHANGED ops
    /\ last' = Last("create_property_change_message", <<object_id, property, value>>,
                    IF client_id.some
                    THEN Some(to_json(property_change_message(client_id.v, object_id, property,
                                                              value, sequence + 1)))
                    ELSE None, {})

\* SyncEngine::create_property_change_message (multiplayer/sync.rs:75-86)
CreatePropertyChangeMessage(object_id, property, value) ==
    /\ client_id.some => sequence < MaxSeq
    /\ sequence' = IF client_id.some THEN sequence + 1 ELSE sequence
    /\ emitted' = IF client_id.some THEN sequence + 1 ELSE emitted
    /\ UNCHANGED <<client_id, pending_changes, cursors, connected, tree, version>>
    /\ UNCHANGED ops
    /\ last' = Last("create_property_change_message", <<object_id, property, value>>,
                    IF client_id.some
                    THEN Some(to_json(property_change_message(client_id.v, object_id, property,
                                                              value, sequence + 1)))
                    ELSE None, {})

\* add_pending_change replacing an entry already registered for the key
AddPendingChangeReplacing(object_id, property, value) ==
    LET Other(c) == ~(c.object_id = object_id /\ c.property = property)
    IN /\ sequence < MaxSeq
       /\ sequence' = sequence + 1
       /\ pending_changes' = Append(SelectSeq(pending_changes, Other),
                                    [object_id |-> object_id, property |-> property,
                                     value |-> value, sequence |-> sequence + 1])
       /\ UNCHANGED <<client_id, cursors, connected, tree, version, emitted>>
       /\ UNCHANGED ops
       /\ last' = Last("add_pending_change", <<object_id, property, value>>, None, {})

\* SyncEngine::add_pending_change (multiplayer/sync.rs:166-174)
AddPendingChange(object_id, property, value) ==
    /\ sequence < MaxSeq
    /\ sequence' = sequence + 1
    /\ pending_changes' = Append(pending_changes,
                                 [object_id |-> object_id, property |-> property,
                                  value |-> value, sequence |-> sequence + 1])
    /\ UNCHANGED <<client_id, cursors, connected, tree, version, emitted>>
    /\ UNCHANGED ops
    /\ last' = Last("add_pending_change", <<object_id, property, value>>, None, {})

\* The JoinAck arm keeping an identity the engine already has
HandleJoinAckKeepsIdentity(m) ==
    /\ client_id' = IF client_id.some THEN client_id ELSE Some(m.client_id)
    /\ connected' = TRUE
    /\ UNCHANGED <<sequence, pending_changes, cursors, tree, version>>

\* The JoinAck arm starting the session with an empty pending set
HandleJoinAckClearsPending(m) ==
    /\ client_id' = Some(m.client_id)
    /\ connected' = TRUE
    /\ pending_changes' = <<>>
    /\ UNCHANGED <<sequence, cursors, tree, version>>

\* process_message, JoinAck (multiplayer/sync.rs:93-97)
HandleJoinAck(m) ==
    /\ client_id' = Some(m.client_id)
    /\ connected' = TRUE
    /\ UNCHANGED <<sequence, pending_changes, cursors, tree, version>>

\* The CursorMove arm keeping the cursor of the sending peer only
HandleCursorMoveSingle(m) ==
    /\ cursors' =
          (m.client_id :> set_position(UserCursor_new(m.client_id, user_name(m.client_id),
                                                      get_user_color(m.client_id)),
                                       m.x, m.y))
    /\ UNCHANGED <<client_id, sequence, pending_changes, connected, tree, version>>

\* process_message, CursorMove (multiplayer/sync.rs:98-111)
HandleCursorMove(m) ==
    /\ cursors' =
          IF m.client_id \in DOMAIN cursors
          THEN [cursors EXCEPT ![m.client_id] = set_position(@, m.x, m.y)]
          ELSE (m.client_id :> set_position(UserCursor_new(m.client_id, user_name(m.client_id),
                                                           get_user_color(m.client_id)),
                                            m.x, m.y)) @@ cursors
    /\ UNCHANGED <<client_id, sequence, pending_changes, connected, tree, version>>

\* The PropertyChange arm with its pending test inverted
apply_property_change_inverted(m) ==
    IF has_pending_change(m.object_id, m.property) /\ PropertyValue_from_str(m.value).some
    THEN set_node_property(document, m.object_id, m.property, PropertyValue_from_str(m.value).v)
    ELSE document

\* The document after process_message's PropertyChange arm (multiplayer/sync.rs:112-120)
apply_property_change(m) ==
    IF ~has_pending_change(m.object_id, m.property) /\ PropertyValue_from_str(m.value).some
    THEN set_node_property(document, m.object_id, m.property, PropertyValue_from_str(m.value).v)
    ELSE document

\* process_message, PropertyChange (multiplayer/sync.rs:112-120)
HandlePropertyChange(m) ==
    LET after == apply_property_change(m)
    IN /\ after.version <= MaxVersion
       /\ tree' = after.tree
       /\ version' = after.version
       /\ UNCHANGED <<client_id, sequence, pending_changes, cursors, connected>>

\* An Ack that retires every entry up to the acknowledged sequence
retain_above(pending, s) ==
    LET Keep(c) == c.sequence > s IN SelectSeq(pending, Keep)

\* pending_changes.retain(|c| c.sequence != sequence) (multiplayer/sync.rs:123)
retain_unacked(pending, s) ==
    LET Keep(c) == c.sequence # s IN SelectSeq(pending, Keep)

\* The Ack arm writing the value of an entry it retires to the document
HandleAckWritesBack(m) ==
    LET retired == {i \in 1..Len(pending_changes) : pending_changes[i].sequence = m.sequence}
        after == IF retired = {} THEN document
                 ELSE LET c == pending_changes[CHOOSE i \in retired : TRUE]
                      IN set_node_property(document, c.object_id, c.property, c.value)
    IN /\ pending_changes' = retain_unacked(pending_changes, m.sequence)
       /\ tree' = after.tree
       /\ version' = after.version
       /\ UNCHANGED <<client_id, sequence, cursors, connected>>

\* process_message, Ack (multiplayer/sync.rs:121-125)
HandleAck(m) ==
    /\ pending_changes' = retain_unacked(pending_changes, m.sequence)
    /\ UNCHANGED <<client_id, sequence, cursors, connected, tree, version>>

\* The Leave arm clearing every cursor
HandleLeaveAll(m) ==
    /\ cursors' = <<>>
    /\ UNCHANGED <<client_id, sequence, pending_changes, connected, tree, version>>

\* process_message, Leave (multiplayer/sync.rs:126-129)
HandleLeave(m) ==
    /\ cursors' = [c \in (DOMAIN cursors) \ {m.client_id} |-> cursors[c]]
    /\ UNCHANGED <<client_id, sequence, pending_changes, connected, tree, version>>

\* process_message, Ping and the catch-all arm (multiplayer/sync.rs:130-133)
HandleUnchanged ==
    UNCHANGED <<client_id, sequence, pending_changes, cursors, connected, tree, version>>

\* process_message answering nothing to any message
process_message_result_silent(message) == None

\* process_message answering Pong to every message it has no arm for
process_message_result_echo(message) ==
    IF /\ message.some
       /\ message.v.type \notin {"JoinAck", "CursorMove", "PropertyChange", "Ack", "Leave"}
    THEN Some(to_json([type |-> "Pong"]))
    ELSE None

\* What process_message returns (multiplayer/sync.rs:90-134)
process_message_result(message) ==
    IF message.some /\ message.v.type = "Ping" THEN Some(to_json([type |-> "Pong"])) ELSE None

\* The keys of the pending entries an Ack of sequence s retires
retired_keys(s) ==
    {<<pending_changes[i].object_id, pending_changes[i].property>> :
        i \in {k \in 1..Len(pending_changes) : pending_changes[k].sequence = s}}

\* process_message with an arm that acts on DeleteObject by removing the
\* object from the tree
ProcessMessageDeleting(json) ==
    LET message == from_json(json)
    IN /\ IF ~message.some THEN HandleUnchanged
          ELSE CASE message.v.type = "JoinAck" -> HandleJoinAck(message.v)
                 [] message.v.type = "CursorMove" -> HandleCursorMove(message.v)
                 [] message.v.type = "PropertyChange" -> HandlePropertyChange(message.v)
                 [] message.v.type = "Ack" -> HandleAck(message.v)
                 [] message.v.type = "Leave" -> HandleLeave(message.v)
                 [] message.v.type = "DeleteObject" ->
                       /\ tree' = remove(tree, message.v.object_id)
                       /\ UNCHANGED <<client_id, sequence, pending_changes, cursors,
                                       connected, version>>
                 [] OTHER -> HandleUnchanged
       /\ UNCHANGED emitted
       /\ UNCHANGED ops
       /\ last' = [Last("process_message", json, process_message_result(message),
                        IF message.some /\ message.v.type = "Ack"
                        THEN retired_keys(message.v.sequence) ELSE {})
                   EXCEPT !.prev_removed =
                       IF message.some /\ message.v.type = "PropertyChange"
                       THEN last.removed ELSE {}]

\* SyncEngine::process_message (multiplayer/sync.rs:89-135)
ProcessMessage(json) ==
    LET message == from_json(json)
    IN /\ IF ~message.some THEN HandleUnchanged
          ELSE CASE message.v.type = "JoinAck" -> HandleJoinAck(message.v)
                 [] message.v.type = "CursorMove" -> HandleCursorMove(message.v)
                 [] message.v.type = "PropertyChange" -> HandlePropertyChange(message.v)
                 [] message.v.type = "Ack" -> HandleAck(message.v)
                 [] message.v.type = "Leave" -> HandleLeave(message.v)
                 [] OTHER -> HandleUnchanged
       /\ UNCHANGED emitted
       /\ UNCHANGED ops
       /\ last' = [Last("process_message", json, process_message_result(message),
                        IF message.some /\ message.v.type = "Ack"
                        THEN retired_keys(message.v.sequence) ELSE {})
                   EXCEPT !.prev_removed =
                       IF message.some /\ message.v.type = "PropertyChange"
                       THEN last.removed ELSE {}]

\* A local edit through Document::set_node_x (document/mod.rs:220-225)
SetNodeX(id, x) ==
    LET after == set_node_x(document, id, x)
    IN /\ after.version <= MaxVersion
       /\ tree' = after.tree
       /\ version' = after.version
       /\ UNCHANGED <<client_id, sequence, pending_changes, cursors, connected, emitted>>
       /\ UNCHANGED ops
       /\ last' = Last("set_node_x", <<id, x>>, None, {})

----------------------------------------------------------------------------
\* The inputs of the exploration

Properties == {"X", "Y"}
LocalFloats == {1}
RemoteTexts == {PropertyValue_to_json(PV_Float(2)), JBad}
Peers == {1}
Positions == {<<3, 4>>}
AssignedIds == {7, 8}

\* Well-formed payloads, as the peer's Message::to_json writes them: the
\* variants process_message acts on, and DeleteObject for those it does not
ValidPayloads ==
    {to_json(m) : m \in
        [type : {"JoinAck"}, client_id : AssignedIds, document_state : {"{}"}]
        \cup [type : {"Leave"}, client_id : Peers]
        \cup {[type |-> "CursorMove", client_id |-> c, x |-> p[1], y |-> p[2]] :
                c \in Peers, p \in Positions}
        \cup [type : {"PropertyChange"}, client_id : {1}, object_id : {PageId},
              property : {"X"}, value : RemoteTexts, sequence : {1}]
        \cup {[type |-> "PropertyChange", client_id |-> 1, object_id |-> AbsentId,
               property |-> "X", value |-> PropertyValue_to_json(PV_Float(2)),
               sequence |-> 1]}
        \cup [type : {"Ack"}, sequence : 1..MaxSeq]
        \cup {[type |-> "Ping"],
              [type |-> "DeleteObject", client_id |-> 1, object_id |-> PageId, sequence |-> 1]}}

\* Payloads that are not a message: text that is not JSON, an unknown
\* variant, and a struct variant with a field missing or out of its type
MalformedPayloads ==
    {JBad,
     JObj("Resync" :> JObj([client_id |-> JNum(7)])),
     JObj("JoinAck" :> JObj([client_id |-> JNum(7)])),
     JObj("JoinAck" :> JObj([client_id |-> JNum(0 - 7), document_state |-> JStr("{}")]))}

Payloads == ValidPayloads \cup MalformedPayloads

----------------------------------------------------------------------------
\* The engine and the document after SyncEngine::new and Document::new

Init ==
    /\ client_id = None
    /\ sequence = 0
    /\ pending_changes = <<>>
    /\ cursors = <<>>
    /\ connected = FALSE
    /\ tree = Document_new.tree
    /\ version = Document_new.version
    /\ last = [op |-> "new", arg |-> <<>>, ret |-> None,
               pre |-> [identified |-> FALSE, connected |-> FALSE, counted |-> FALSE,
                        peers |-> {}],
               removed |-> {}, prev_removed |-> {}]
    /\ emitted = 0
    /\ ops = 0

Next ==
    \/ \E c \in BOOLEAN : SetConnected(c)
    \/ CreateJoinMessage("doc", "ann")
    \/ \E p \in Positions : CreateCursorMessage(p[1], p[2])
    \/ \E p \in Properties, x \in LocalFloats :
          CreatePropertyChangeMessage(PageId, p, PropertyValue_to_json(PV_Float(x)))
    \/ \E p \in Properties, x \in LocalFloats : AddPendingChange(PageId, p, PV_Float(x))
    \/ \E json \in Payloads : ProcessMessage(json)
    \/ \E x \in LocalFloats : SetNodeX(PageId, x)

Spec == Init /\ [][Next]_vars

----------------------------------------------------------------------------
\* The engine fed every variant of Message, with two peers whose ids share a
\* palette color and two cursor positions

WirePeers == {1, 9}
WirePositions == {<<3, 4>>, <<5, 6>>}

WireMessages ==
    [type : {"JoinAck"}, client_id : {7}, document_state : {"{}"}]
    \cup [type : {"Leave"}, client_id : WirePeers]
    \cup {[type |-> "CursorMove", client_id |-> c, x |-> p[1], y |-> p[2]] :
            c \in WirePeers, p \in WirePositions}
    \cup {[type |-> "PropertyChange", client_id |-> 1, object_id |-> PageId,
           property |-> "X", value |-> PropertyValue_to_json(PV_Float(2)), sequence |-> 1],
          [type |-> "Ack", sequence |-> MaxSeq],
          [type |-> "Join", document_id |-> "doc", client_name |-> "ann"],
          [type |-> "SelectionChange", client_id |-> 1, selected_ids |-> <<PageId, AbsentId>>],
          [type |-> "Error", code |-> 404, message |-> "no such document"],
          [type |-> "CreateObject", client_id |-> 1, object_id |-> AbsentId,
           object_type |-> "Rectangle", parent_id |-> PageId,
           order_index |-> "0.5", sequence |-> 1],
          [type |-> "DeleteObject", client_id |-> 1, object_id |-> PageId, sequence |-> 1],
          [type |-> "MoveObject", client_id |-> 1, object_id |-> PageId,
           new_parent_id |-> RootId, order_index |-> "0.5", sequence |-> 1],
          [type |-> "Ping"],
          [type |-> "Pong"]}

WirePayloads == {to_json(m) : m \in WireMessages}

WireNext ==
    \/ \E json \in WirePayloads : ProcessMessage(json)
    \/ \E c \in BOOLEAN : SetConnected(c)

WireSpec == Init /\ [][WireNext]_vars

----------------------------------------------------------------------------
\* A DocumentTree driven through its public operations, MaxOps of them from
\* each starting tree

\* The tree operations leave the engine and the document version alone
TreeOnly == UNCHANGED <<client_id, sequence, pending_changes, cursors, connected,
                        version, emitted>>

\* DocumentTree::insert of a node created by Node::new and given order key
\* index by Node::set_order_index (document/tree.rs:170-179)
Insert(id, index) ==
    /\ ops < MaxOps
    /\ ops' = ops + 1
    /\ tree' = insert(tree, [Node_new(id, "Rectangle") EXCEPT !.order_index = index])
    /\ last' = Last("insert", <<id, index>>, None, {})
    /\ TreeOnly

\* DocumentTree::set_parent (document/tree.rs:226-251)
SetParent(child_id, parent_id) ==
    /\ ops < MaxOps
    /\ ops' = ops + 1
    /\ tree' = set_parent(tree, child_id, parent_id)
    /\ last' = Last("set_parent", <<child_id, parent_id>>, None, {})
    /\ TreeOnly

\* id is reached from n by following at most k parent links, the first included
RECURSIVE ReachedByParents(_, _, _, _)
ReachedByParents(t, n, id, k) ==
    /\ k > 0
    /\ n \in DOMAIN t.parent_map
    /\ (t.parent_map[n] = id \/ ReachedByParents(t, t.parent_map[n], id, k - 1))

\* The ids on the parent cycle through id in t: id and every id that is an
\* ancestor of id and has id as an ancestor; empty when id is on no cycle
ParentCycle(t, id) ==
    LET k == Cardinality(DOMAIN t.parent_map)
    IN IF ReachedByParents(t, id, id, k)
       THEN {m \in DOMAIN t.parent_map :
                ReachedByParents(t, id, m, k) /\ ReachedByParents(t, m, id, k)}
       ELSE {}

\* DocumentTree::remove (document/tree.rs:194-211); last.removed keeps the ids
\* that were on a parent cycle through id before the call
Remove(id) ==
    /\ ops < MaxOps
    /\ ops' = ops + 1
    /\ tree' = remove(tree, id)
    /\ last' = Last("remove", <<id>>, None, ParentCycle(tree, id))
    /\ TreeOnly

\* DocumentTree::move_before (document/tree.rs:291-320)
MoveBefore(node_id, before_id) ==
    /\ ops < MaxOps
    /\ ops' = ops + 1
    /\ tree' = move_before(tree, node_id, before_id)
    /\ last' = Last("move_before", <<node_id, before_id>>, None, {})
    /\ TreeOnly

\* DocumentTree::move_after (document/tree.rs:325-349)
MoveAfter(node_id, after_id) ==
    /\ ops < MaxOps
    /\ ops' = ops + 1
    /\ tree' = move_after(tree, node_id, after_id)
    /\ last' = Last("move_after", <<node_id, after_id>>, None, {})
    /\ TreeOnly

\* The ids of the exploration: a frame and three shapes, and the key each is
\* inserted with ("0.5" is the key of Node::new)
FrameId == ObjectId_new(3, 1)
FirstId == ObjectId_new(3, 2)
SecondId == ObjectId_new(3, 3)
ThirdId == ObjectId_new(3, 4)
ShapeIds == {FirstId, SecondId, ThirdId}
InsertKey(id) ==
    CASE id = FirstId -> <<Zero, Dot, Zero + 3>>
      [] id = ThirdId -> <<Zero, Dot, Zero + 7>>
      [] OTHER -> DefaultOrderIndex

\* The tree after inserting the nodes of ids, in order, with the keys of
\* index, and parenting each id of under to FrameId, in order
RECURSIVE insert_each(_, _, _), set_parent_each(_, _)
insert_each(t, ids, index) ==
    IF ids = <<>> THEN t
    ELSE insert_each(insert(t, [Node_new(Head(ids), "Rectangle")
                                   EXCEPT !.order_index = index[Head(ids)]]),
                     Tail(ids), index)
set_parent_each(t, under) ==
    IF under = <<>> THEN t
    ELSE set_parent_each(set_parent(t, Head(under), FrameId), Tail(under))

\* The starting trees: the tree of DocumentTree::new; a frame with three
\* shapes keyed "0.3", "0.5", "0.7"; a frame with two shapes that keep the key
\* of Node::new
EmptyTree == DocumentTree_new(UnusedId)
KeyedSiblings ==
    set_parent_each(insert_each(EmptyTree, <<FrameId, FirstId, SecondId, ThirdId>>,
                                [id \in ShapeIds \cup {FrameId} |-> InsertKey(id)]),
                    <<FirstId, SecondId, ThirdId>>)
DefaultSiblings ==
    set_parent_each(insert_each(EmptyTree, <<FrameId, FirstId, SecondId>>,
                                [id \in ShapeIds \cup {FrameId} |-> DefaultOrderIndex]),
                    <<FirstId, SecondId>>)
StartTrees == {EmptyTree, KeyedSiblings, DefaultSiblings}

\* A starting tree, beside an engine that stays as created
TreeInit ==
    /\ client_id = None
    /\ sequence = 0
    /\ pending_changes = <<>>
    /\ cursors = <<>>
    /\ connected = FALSE
    /\ tree \in StartTrees
    /\ version = 1
    /\ last = [op |-> "new", arg |-> <<>>, ret |-> None,
               pre |-> [identified |-> FALSE, connected |-> FALSE, counted |-> FALSE,
                        peers |-> {}],
               removed |-> {}, prev_removed |-> {}]
    /\ emitted = 0
    /\ ops = 0

TreeNext ==
    \/ \E id \in ShapeIds \cup {FrameId} : Insert(id, InsertKey(id))
    \/ \E c \in ShapeIds, p \in {FrameId, FirstId, SecondId} : SetParent(c, p)
    \/ \E id \in ShapeIds \cup {FrameId} : Remove(id)
    \/ \E n \in ShapeIds, a \in ShapeIds : MoveBefore(n, a)
    \/ \E n \in ShapeIds, a \in ShapeIds : MoveAfter(n, a)

TreeSpec == TreeInit /\ [][TreeNext]_vars

----------------------------------------------------------------------------
\* fractional_midpoint called again and again for one place of a child list:
\* move_after with one anchor asks for each new key between the anchor's key
\* and the key inserted last (InsertBelow), move_before with one anchor
\* between the key inserted last and the anchor's key (InsertAbove). last.arg holds the two keys the call was given,
\* last.ret the key it returned, ops the number of insertions.

\* The lower and upper key the next insertion at the place is computed from
LowerKey == IF last.op = "insert_above" THEN last.ret.v ELSE last.arg[1]
UpperKey == IF last.op = "insert_below" THEN last.ret.v ELSE last.arg[2]

InsertBelow ==
    /\ last.op \in {"neighbors", "insert_below"}
    /\ ops < MaxInsertions
    /\ ops' = ops + 1
    /\ \E m \in fractional_midpoints(LowerKey, UpperKey) :
          last' = Last("insert_below", <<LowerKey, UpperKey>>, Some(m), {})
    /\ UNCHANGED tree
    /\ TreeOnly

InsertAbove ==
    /\ last.op \in {"neighbors", "insert_above"}
    /\ ops < MaxInsertions
    /\ ops' = ops + 1
    /\ \E m \in fractional_midpoints(LowerKey, UpperKey) :
          last' = Last("insert_above", <<LowerKey, UpperKey>>, Some(m), {})
    /\ UNCHANGED tree
    /\ TreeOnly

\* Pairs of neighbor keys a < b: the sentinels, the keys of the keyed
\* siblings, and the default key with the sentinel above it
NeighborPairs ==
    {<<<<Zero>>, <<Zero + 1>>>>,
     <<InsertKey(FirstId), InsertKey(SecondId)>>,
     <<DefaultOrderIndex, <<Zero + 1>>>>}

MidpointInit ==
    /\ client_id = None
    /\ sequence = 0
    /\ pending_changes = <<>>
    /\ cursors = <<>>
    /\ connected = FALSE
    /\ tree = EmptyTree
    /\ version = 1
    /\ \E pair \in NeighborPairs :
          last = [op |-> "neighbors", arg |-> pair, ret |-> None,
                  pre |-> [identified |-> FALSE, connected |-> FALSE, counted |-> FALSE,
                           peers |-> {}],
                  removed |-> {}, prev_removed |-> {}]
    /\ emitted = 0
    /\ ops = 0

MidpointNext == InsertBelow \/ InsertAbove

MidpointSpec == MidpointInit /\ [][MidpointNext]_vars

----------------------------------------------------------------------------
\* The Document operations that build the node tree, run on a new document

DocumentOnly == UNCHANGED <<client_id, sequence, pending_changes, cursors, connected,
                            emitted, ops>>

\* The ids ObjectId::random() can return (document/mod.rs:34-41); a call
\* returns one the tree does not know yet
RandomIds == {ObjectId_new(5, 1), ObjectId_new(5, 2), ObjectId_new(5, 3)}

KnownIds ==
    DOMAIN tree.nodes \cup DOMAIN tree.parent_map \cup DOMAIN tree.children_map
        \cup {tree.root_id}

\* Position and size given to a created node: x, y, width, height
Bounds == {<<10, 20, 100, 50>>, <<0, 0, 800, 600>>}

CreateFrame(frame_id, b) ==
    LET after == create_frame(document, frame_id, b[1], b[2], b[3], b[4])
    IN /\ frame_id \notin KnownIds
       /\ after.version <= MaxVersion
       /\ tree' = after.tree
       /\ version' = after.version
       /\ last' = Last("create_frame", b, Some(frame_id), {})
       /\ DocumentOnly

CreateRectangle(rect_id, parent_id, b) ==
    LET after == create_rectangle(document, rect_id, parent_id, b[1], b[2], b[3], b[4])
    IN /\ rect_id \notin KnownIds
       /\ after.version <= MaxVersion
       /\ tree' = after.tree
       /\ version' = after.version
       /\ last' = Last("create_rectangle", <<parent_id>> \o b, Some(rect_id), {})
       /\ DocumentOnly

DeleteNode(id) ==
    LET after == delete_node(document, id)
    IN /\ after.version <= MaxVersion
       /\ tree' = after.tree
       /\ version' = after.version
       /\ last' = Last("delete_node", <<id>>, None, {})
       /\ DocumentOnly

DocumentNext ==
    \/ \E id \in RandomIds, b \in Bounds : CreateFrame(id, b)
    \/ \E id \in RandomIds, p \in RandomIds \cup {RootId, PageId}, b \in Bounds :
          CreateRectangle(id, p, b)
    \/ \E id \in RandomIds \cup {PageId} : DeleteNode(id)

DocumentSpec == Init /\ [][DocumentNext]_vars

----------------------------------------------------------------------------
\* The codecs run alone: a value is encoded and the text decoded again;
\* last.arg holds the value, last.ret what the decoder returned

\* f32 values: zero, a negative, the largest the model's cast keeps exact,
\* and one that is not finite
CodecFloats == {0, -7, 33554432, NaN}

CodecMessages ==
    WireMessages
    \cup {[type |-> "CursorMove", client_id |-> c, x |-> x, y |-> y] :
            c \in WirePeers, x \in CodecFloats, y \in CodecFloats}

\* The property values of one variant
CodecValues(variant) ==
    CASE variant = "Float" -> {PV_Float(v) : v \in CodecFloats}
      [] variant = "Int" -> {PV_Int(v) : v \in {0, -1, 2147483647}}
      [] variant = "Bool" -> {PV_Bool(b) : b \in BOOLEAN}
      [] variant = "String" -> {PV_String(t) : t \in {"", "Page 1"}}
      [] variant = "Color" ->
            {PV_Color(Color_new(8, 8, 8, 10)), PV_Color(Color_new(0, NaN, 0, 10))}
      [] variant = "Vec2" -> {PV_Vec2(x, y) : x \in CodecFloats, y \in CodecFloats}
      [] variant = "Vec4" -> {PV_Vec4(0, x, -7, y) : x \in CodecFloats, y \in CodecFloats}

ValueVariants == {"Float", "Int", "Bool", "String", "Color", "Vec2", "Vec4"}

CodecProperties ==
    {<<>>,
     "X" :> PV_Float(10),
     "Name" :> PV_String("Frame"),
     ("X" :> PV_Float(10)) @@ ("FillColor" :> PV_Color(Color_new(8, 8, 8, 10))),
     "Width" :> PV_Float(NaN)}

CodecNodes ==
    {[id |-> id, node_type |-> ty, properties |-> ps, order_index |-> key] :
        id \in {RootId, FrameId}, ty \in {"Document", "Frame", "Rectangle"},
        ps \in CodecProperties, key \in {DefaultOrderIndex, InsertKey(FirstId)}}

CodecOnly == UNCHANGED <<client_id, sequence, pending_changes, cursors, connected,
                         tree, version, emitted, ops>>

\* Message::from_json(message.to_json()) (multiplayer/message.rs:81-91)
MessageRoundTrip(message) ==
    /\ last' = Last("message_round_trip", message, from_json(to_json(message)), {})
    /\ CodecOnly

\* serde_json::from_str::<PropertyValue>(&serde_json::to_string(&value))
ValueRoundTrip(value) ==
    /\ last' = Last("value_round_trip", value,
                    PropertyValue_from_str(PropertyValue_to_json(value)), {})
    /\ CodecOnly

\* serde_json::from_str::<Node>(&serde_json::to_string(&node))
NodeRoundTrip(node) ==
    /\ last' = Last("node_round_trip", node, Node_from_json(Node_to_json(node)), {})
    /\ CodecOnly

CodecNext ==
    \/ \E m \in CodecMessages : MessageRoundTrip(m)
    \/ \E variant \in ValueVariants : \E v \in CodecValues(variant) : ValueRoundTrip(v)
    \/ \E n \in CodecNodes : NodeRoundTrip(n)

CodecSpec == Init /\ [][CodecNext]_vars

----------------------------------------------------------------------------
\* Properties

\* The message the operation recorded in h processed, when it is a
\* process_message call whose payload decoded to variant type
Processed(h, type) ==
    /\ h.op = "process_message"
    /\ from_json(h.arg).some
    /\ from_json(h.arg).v.type = type

\* Some pending entry is for (object_id, property)
PendingFor(pending, object_id, property) ==
    \E i \in 1..Len(pending) :
        pending[i].object_id = object_id /\ pending[i].property = property

\* The value node object_id stores for property in tree t (None: no such
\* node, or the property is not set)
Stored(t, object_id, property) ==
    IF object_id \in DOMAIN t.nodes
    THEN Node_get_property(t.nodes[object_id], property)
    ELSE None

\* C1: a remote PropertyChange for (O, P) processed while a local change to
\* (O, P) is pending is dropped: the document is left as it was, so a pending
\* local value that was written to the tree is still the stored value.
C1_RemoteDroppedWhilePending ==
    [][LET m == from_json(last'.arg).v
       IN (/\ Processed(last', "PropertyChange")
           /\ PendingFor(pending_changes, m.object_id, m.property))
          => /\ tree' = tree
             /\ version' = version
             /\ \A i \in 1..Len(pending_changes) :
                   (/\ pending_changes[i].object_id = m.object_id
                    /\ pending_changes[i].property = m.property
                    /\ Stored(tree, m.object_id, m.property) = Some(pending_changes[i].value))
                   => Stored(tree', m.object_id, m.property) = Some(pending_changes[i].value)
      ]_vars

\* C1 witness: a decodable remote value for (O, P) that differs from the
\* pending local value has just been processed, and the tree holds the local one
C1_Witness ==
    /\ Processed(last, "PropertyChange")
    /\ LET m == from_json(last.arg).v
       IN /\ PropertyValue_from_str(m.value).some
          /\ \E i \in 1..Len(pending_changes) :
                /\ pending_changes[i].object_id = m.object_id
                /\ pending_changes[i].property = m.property
                /\ pending_changes[i].value # PropertyValue_from_str(m.value).v
                /\ Stored(tree, m.object_id, m.property) = Some(pending_changes[i].value)

\* C2 as stated: a remote PropertyChange for (O, P) on an existing O, carrying
\* a value that decodes, processed right after an Ack that retired a pending
\* entry for (O, P), leaves the remote value stored for P on O.
C2_AppliedAfterAck ==
    Processed(last, "PropertyChange") =>
        LET m == from_json(last.arg).v
        IN (/\ <<m.object_id, m.property>> \in last.prev_removed
            /\ m.object_id \in DOMAIN tree.nodes
            /\ PropertyValue_from_str(m.value).some)
           => Stored(tree, m.object_id, m.property) = PropertyValue_from_str(m.value)

\* C2 amended: a remote PropertyChange for (O, P) on an existing O, carrying
\* a value that decodes, leaves the remote value stored for P on O whenever no
\* pending entry for (O, P) is left, as after the Ack of the only pending
\* change to (O, P).
C2_AppliedOnceNoPendingLeft ==
    Processed(last, "PropertyChange") =>
        LET m == from_json(last.arg).v
        IN (/\ ~PendingFor(pending_changes, m.object_id, m.property)
            /\ m.object_id \in DOMAIN tree.nodes
            /\ PropertyValue_from_str(m.value).some)
           => Stored(tree, m.object_id, m.property) = PropertyValue_from_str(m.value)

\* C2 witness: the remote change that followed the Ack of the only pending
\* entry for (O, P) has been applied
C2_Witness ==
    /\ Processed(last, "PropertyChange")
    /\ LET m == from_json(last.arg).v
       IN /\ <<m.object_id, m.property>> \in last.prev_removed
          /\ ~PendingFor(pending_changes, m.object_id, m.property)
          /\ PropertyValue_from_str(m.value).some
          /\ Stored(tree, m.object_id, m.property) = PropertyValue_from_str(m.value)

\* C3: when the caller emits a local change with
\* create_property_change_message and registers the same change with
\* add_pending_change (in either order), the pending entry carries the
\* sequence number of the emitted message.
C3_PendingKeyedByEmittedSequence ==
    [][/\ (/\ last.op = "create_property_change_message"
           /\ last.ret.some
           /\ last'.op = "add_pending_change"
           /\ last'.arg[1] = last.arg[1]
           /\ last'.arg[2] = last.arg[2]
           /\ PropertyValue_to_json(last'.arg[3]) = last.arg[3])
          => pending_changes'[Len(pending_changes')].sequence
                = from_json(last.ret.v).v.sequence
       /\ (/\ last.op = "add_pending_change"
           /\ last'.op = "create_property_change_message"
           /\ last'.ret.some
           /\ last'.arg[1] = last.arg[1]
           /\ last'.arg[2] = last.arg[2]
           /\ last'.arg[3] = PropertyValue_to_json(last.arg[3]))
          => pending_changes[Len(pending_changes)].sequence
                = from_json(last'.ret.v).v.sequence
      ]_vars

\* C4: processing Ack(s) leaves exactly the pending entries whose sequence
\* differs from s, in their order.
C4_AckRetiresExactMatch ==
    [][Processed(last', "Ack") =>
          LET s == from_json(last'.arg).v.sequence
              Other(c) == c.sequence < s \/ c.sequence > s
          IN pending_changes' = SelectSeq(pending_changes, Other)
      ]_vars

\* C4 witness: an Ack retired an entry and left one of another sequence
C4_Witness ==
    /\ Processed(last, "Ack")
    /\ last.removed # {}
    /\ \E i \in 1..Len(pending_changes) :
          pending_changes[i].sequence # from_json(last.arg).v.sequence

\* C5: after a JoinAck is processed the engine is Connected with the client
\* identity the JoinAck carries; after set_connected(false) it is
\* Disconnected with no client identity.
C5_ConnectionStateMachine ==
    /\ Processed(last, "JoinAck") =>
          client_id = Some(from_json(last.arg).v.client_id) /\ connected
    /\ (last.op = "set_connected" /\ ~last.arg) => (~connected /\ client_id = None)

\* C5 witness: a Connected engine with an identity has just been disconnected
C5_Witness ==
    /\ last.op = "set_connected"
    /\ ~last.arg
    /\ last.pre.connected
    /\ last.pre.identified
    /\ ~connected
    /\ client_id = None

\* C6: a client identity is present only while the engine is Connected.
C6_IdentityOnlyWhileConnected == client_id.some => connected

\* C6 witness: set_connected has been called on an engine that holds an identity
C6_Witness ==
    /\ last.op = "set_connected"
    /\ last.pre.identified
    /\ client_id.some
    /\ sequence > 0

\* C7: a Disconnected engine becomes Connected only by processing a JoinAck.
C7_OnlyJoinAckConnects ==
    [][(~connected /\ connected') => Processed(last', "JoinAck")]_vars

\* C8: with a client identity, create_property_change_message adds one to the
\* sequence counter and returns a PropertyChange carrying the new counter value,
\* the local identity and the arguments; the sequence it carries is above that
\* of every message emitted before.
C8_EmittedSequenceIncreases ==
    [][(last'.op = "create_property_change_message" /\ client_id.some) =>
          /\ sequence' = sequence + 1
          /\ last'.ret.some
          /\ from_json(last'.ret.v) =
                Some([type |-> "PropertyChange", client_id |-> client_id.v,
                      object_id |-> last'.arg[1], property |-> last'.arg[2],
                      value |-> last'.arg[3], sequence |-> sequence'])
          /\ from_json(last'.ret.v).v.sequence > emitted
      ]_vars

\* C8 witness: a second PropertyChange has been emitted
C8_Witness ==
    /\ last.op = "create_property_change_message"
    /\ last.ret.some
    /\ last.pre.counted
    /\ emitted = sequence

\* C9: without a client identity create_cursor_message and
\* create_property_change_message return nothing and change neither the engine
\* nor the document.
C9_NoMessageWithoutIdentity ==
    [][(/\ last'.op \in {"create_cursor_message", "create_property_change_message"}
        /\ ~client_id.some)
       => /\ last'.ret = None
          /\ UNCHANGED <<client_id, sequence, pending_changes, cursors, connected,
                         tree, version>>
      ]_vars

\* C9 witness: create_property_change_message returned nothing on an engine
\* that is flagged connected but has no identity, after the counter had moved
C9_Witness ==
    /\ last.op = "create_property_change_message"
    /\ ~last.pre.identified
    /\ connected
    /\ last.ret = None
    /\ sequence > 0

\* C10: a payload that is not a message makes process_message return nothing
\* and change neither the engine nor the document.
C10_MalformedPayloadIgnored ==
    [][(last'.op = "process_message" /\ last'.arg \in MalformedPayloads)
       => /\ last'.ret = None
          /\ UNCHANGED <<client_id, sequence, pending_changes, cursors, connected,
                         tree, version>>
      ]_vars

\* C10 witness: a malformed payload has been processed by an engine that has
\* an identity, a pending change and a peer cursor
C10_Witness ==
    /\ last.op = "process_message"
    /\ last.arg \in MalformedPayloads
    /\ client_id.some
    /\ pending_changes # <<>>
    /\ cursors # <<>>

\* C11: a remote PropertyChange that names an object id absent from the tree
\* makes process_message return nothing, leaves the document (nodes, indices,
\* version) unchanged and creates no node for that id.
C11_AbsentObjectIgnored ==
    [][(/\ Processed(last', "PropertyChange")
        /\ from_json(last'.arg).v.object_id \notin DOMAIN tree.nodes)
       => /\ last'.ret = None
          /\ tree' = tree
          /\ version' = version
          /\ from_json(last'.arg).v.object_id \notin DOMAIN tree'.nodes
      ]_vars

\* C11 witness: a remote change with a decodable value and no pending entry
\* in its way, so that set_node_property was called, named an absent object
C11_Witness ==
    /\ Processed(last, "PropertyChange")
    /\ LET m == from_json(last.arg).v
       IN /\ m.object_id \notin DOMAIN tree.nodes
          /\ PropertyValue_from_str(m.value).some
          /\ ~PendingFor(pending_changes, m.object_id, m.property)
    /\ last.ret = None

\* The engine state and the document are as before the step
EngineAndDocumentUnchanged ==
    UNCHANGED <<client_id, sequence, pending_changes, cursors, connected, tree, version>>

\* C12: processing Ping returns a Pong payload and changes no engine or
\* document state.
C12_PingAnsweredWithPong ==
    [][Processed(last', "Ping")
       => /\ last'.ret.some
          /\ from_json(last'.ret.v) = Some([type |-> "Pong"])
          /\ EngineAndDocumentUnchanged
      ]_vars

\* C12 witness: a Ping has been answered by an engine that holds an identity
\* and a peer cursor
C12_Witness ==
    /\ Processed(last, "Ping")
    /\ last.ret.some
    /\ client_id.some
    /\ DOMAIN cursors # {}

\* C13: processing a Join, SelectionChange or Error message returns nothing
\* and leaves the engine state and the document unchanged.
C13_UnhandledVariantsIgnored ==
    [][(\E type \in {"Join", "SelectionChange", "Error"} : Processed(last', type))
       => /\ last'.ret = None
          /\ EngineAndDocumentUnchanged
      ]_vars

\* C13 witness: an Error has been processed by an engine that holds an
\* identity and a peer cursor
C13_Witness ==
    /\ Processed(last, "Error")
    /\ last.ret = None
    /\ client_id.some
    /\ DOMAIN cursors # {}

\* C14: processing CursorMove{c, x, y} leaves peer c with one cursor at
\* (x, y): a new one named after the id and colored from the palette when c
\* had none, the old one with name and color kept when c had one; every other
\* peer's cursor is unchanged and each cursor is filed under its own peer id.
C14_CursorMoveUpserts ==
    [][Processed(last', "CursorMove") =>
          LET m == from_json(last'.arg).v
              c == m.client_id
          IN /\ DOMAIN cursors' = DOMAIN cursors \cup {c}
             /\ cursors'[c] =
                   IF c \in DOMAIN cursors
                   THEN [client_id |-> cursors[c].client_id, name |-> cursors[c].name,
                         color |-> cursors[c].color, x |-> m.x, y |-> m.y]
                   ELSE [client_id |-> c, name |-> <<"User ", c>>,
                         color |-> USER_COLORS[(c % 8) + 1], x |-> m.x, y |-> m.y]
             /\ \A d \in DOMAIN cursors \ {c} : cursors'[d] = cursors[d]
             /\ \A d \in DOMAIN cursors' : cursors'[d].client_id = d
      ]_vars

\* C14 witness: a peer that had a cursor has moved it while another peer's
\* cursor stands elsewhere
C14_Witness ==
    /\ Processed(last, "CursorMove")
    /\ LET c == from_json(last.arg).v.client_id
       IN /\ c \in last.pre.peers
          /\ \E d \in DOMAIN cursors \ {c} : cursors[d].x # cursors[c].x

\* C15: processing Leave(c) removes peer c's cursor and no other, and is a
\* no-op when c has no cursor; a CursorMove from c right after Leave(c)
\* creates a fresh placeholder cursor for c.
C15_LeaveRemovesCursor ==
    [][/\ Processed(last', "Leave") =>
             LET c == from_json(last'.arg).v.client_id
             IN /\ DOMAIN cursors' = DOMAIN cursors \ {c}
                /\ \A d \in DOMAIN cursors' : cursors'[d] = cursors[d]
                /\ UNCHANGED <<client_id, sequence, pending_changes, connected,
                               tree, version>>
                /\ c \notin DOMAIN cursors => UNCHANGED cursors
       /\ (/\ Processed(last, "Leave")
           /\ Processed(last', "CursorMove")
           /\ from_json(last'.arg).v.client_id = from_json(last.arg).v.client_id) =>
             LET m == from_json(last'.arg).v
             IN cursors'[m.client_id] =
                   [client_id |-> m.client_id, name |-> <<"User ", m.client_id>>,
                    color |-> USER_COLORS[(m.client_id % 8) + 1], x |-> m.x, y |-> m.y]
      ]_vars

\* C15 witness: the cursor of a peer has been removed and another peer's
\* cursor is still there
C15_Witness ==
    /\ Processed(last, "Leave")
    /\ LET c == from_json(last.arg).v.client_id
       IN /\ c \in last.pre.peers
          /\ c \notin DOMAIN cursors
          /\ DOMAIN cursors # {}

\* The ids the tree operations are called with
TreeIds == ShapeIds \cup {FrameId}

\* child is listed in children(t, p)
Listed(t, p, child) == \E i \in 1..Len(children(t, p)) : children(t, p)[i] = child

\* C16: the parent and children indices are mutual inverses: a child id
\* appears in children(p) if and only if parent(child) = p.
C16_IndicesMutualInverses ==
    \A p \in TreeIds \cup DOMAIN tree.children_map,
       c \in TreeIds \cup DOMAIN tree.parent_map :
        Listed(tree, p, c) <=> parent(tree, c) = Some(p)

\* C16 witness: set_parent has moved a shape from the frame under another
\* shape while the frame keeps another child
C16_Witness ==
    /\ last.op = "set_parent"
    /\ last.arg[2] # FrameId
    /\ parent(tree, last.arg[1]) = Some(last.arg[2])
    /\ FrameId \in DOMAIN tree.children_map
    /\ children(tree, FrameId) # <<>>
    /\ ops = 1

\* C17: every ObjectId that occurs in the parent index or the children index,
\* as a key or as a listed child, also exists in the node mapping.
C17_NoDanglingReferences ==
    /\ \A c \in DOMAIN tree.parent_map :
          c \in DOMAIN tree.nodes /\ tree.parent_map[c] \in DOMAIN tree.nodes
    /\ \A p \in DOMAIN tree.children_map :
          /\ p \in DOMAIN tree.nodes
          /\ \A i \in 1..Len(tree.children_map[p]) : tree.children_map[p][i] \in DOMAIN tree.nodes

\* C18: no node is its own ancestor: following parent links from a node
\* never returns to that node.
C18_NoNodeIsItsOwnAncestor ==
    \A n \in DOMAIN tree.parent_map :
        ~ReachedByParents(tree, n, n, Cardinality(DOMAIN tree.parent_map))

\* The order keys of the children listed for p are non-decreasing in list
\* order under str::cmp
SortedChildren(t, p) ==
    \A i, k \in 1..Len(children(t, p)) :
        i < k => ~str_lt(sort_key(t.nodes, children(t, p)[k]),
                         sort_key(t.nodes, children(t, p)[i]))

\* C19: insert, set_parent, move_before and move_after leave every child list
\* sorted by order key when they find every child list sorted.
C19_ChildrenSortedByOrderKey ==
    [][(/\ last'.op \in {"insert", "set_parent", "move_before", "move_after"}
        /\ \A p \in DOMAIN tree.children_map : SortedChildren(tree, p))
       => \A p \in DOMAIN tree'.children_map : SortedChildren(tree', p)
      ]_vars

\* C20: move_before(node, anchor) / move_after(node, anchor), for an anchor
\* attached to a parent and another node, leaves node a child of anchor's parent
\* listed immediately before / immediately after anchor; on the siblings keyed
\* "0.3", "0.5", "0.7", move_before(third, second) leaves [first, third, second].
C20_MovedNextToAnchor ==
    [][/\ (/\ last'.op \in {"move_before", "move_after"}
           /\ last'.arg[1] # last'.arg[2]
           /\ last'.arg[2] \in DOMAIN tree.parent_map) =>
             LET node == last'.arg[1]
                 anchor == last'.arg[2]
                 list == children(tree', tree.parent_map[anchor])
             IN /\ parent(tree', node) = parent(tree, anchor)
                /\ position(list, node).some
                /\ position(list, anchor).some
                /\ position(list, node).v =
                      IF last'.op = "move_before" THEN position(list, anchor).v - 1
                      ELSE position(list, anchor).v + 1
       /\ (/\ tree = KeyedSiblings
           /\ last'.op = "move_before"
           /\ last'.arg = <<ThirdId, SecondId>>)
          => children(tree', FrameId) = <<FirstId, ThirdId, SecondId>>
      ]_vars

\* The key of the child listed at 1-based place i of list as it was in tree
\* t, or the sentinel when the list has no such place
KeyAtOr(t, list, i, sentinel) ==
    IF i >= 1 /\ i <= Len(list) THEN sort_key(t.nodes, list[i]) ELSE sentinel

\* C21: the key move_before / move_after gives the moved node lies strictly
\* between the key of anchor's neighbor on that side (the sentinel "0" / "1"
\* at a list end) and anchor's key, under the comparison that orders siblings.
C21_NewKeyStrictlyBetween ==
    [][(/\ last'.op \in {"move_before", "move_after"}
        /\ last'.arg[1] # last'.arg[2]
        /\ last'.arg[2] \in DOMAIN tree.parent_map
        /\ {last'.arg[1], last'.arg[2]} \subseteq DOMAIN tree.nodes) =>
          LET node == last'.arg[1]
              anchor == last'.arg[2]
              list == children(tree', tree.parent_map[anchor])
              at == position(list, anchor).v + 1
              new_key == tree'.nodes[node].order_index
              anchor_key == tree.nodes[anchor].order_index
          IN IF last'.op = "move_before"
             THEN /\ str_lt(KeyAtOr(tree, list, at - 1, <<Zero>>), new_key)
                  /\ str_lt(new_key, anchor_key)
             ELSE /\ str_lt(anchor_key, new_key)
                  /\ str_lt(new_key, KeyAtOr(tree, list, at + 1, <<Zero + 1>>))
      ]_vars

\* C22: move_before and move_after change the order key of the moved node
\* only: every other node keeps its order key, properties and type, and no
\* node other than the moved one changes parent.
C22_MoveTouchesMovedNodeOnly ==
    [][last'.op \in {"move_before", "move_after"} =>
          LET node == last'.arg[1]
          IN /\ DOMAIN tree'.nodes = DOMAIN tree.nodes
             /\ \A id \in DOMAIN tree.nodes \ {node} : tree'.nodes[id] = tree.nodes[id]
             /\ \A id \in (DOMAIN tree.parent_map \cup DOMAIN tree'.parent_map) \ {node} :
                   parent(tree', id) = parent(tree, id)
      ]_vars

\* C22 witness: a move has given a node a computed key and a new parent
\* while two other nodes are in the tree
C22_Witness ==
    /\ last.op \in {"move_before", "move_after"}
    /\ last.arg[1] \in DOMAIN tree.nodes
    /\ Len(tree.nodes[last.arg[1]].order_index) > Len(DefaultOrderIndex)
    /\ parent(tree, last.arg[1]) = parent(tree, last.arg[2])
    /\ parent(tree, last.arg[1]) # Some(FrameId)
    /\ Cardinality(DOMAIN tree.nodes) >= 3

\* The ids of ids and everything listed below them in the children index of t
RECURSIVE ListedBelow(_, _)
ListedBelow(t, ids) ==
    LET next == ids \cup UNION {{children(t, p)[i] : i \in 1..Len(children(t, p))} : p \in ids}
    IN IF next = ids THEN ids ELSE ListedBelow(t, next)

\* The subtree of id in t: id and its descendants
Subtree(t, id) == ListedBelow(t, {id})

\* C23: remove(node) deletes node and its entire subtree: afterwards no id of
\* the subtree is in the node mapping, is a key or a value of the parent index
\* or is listed in or keeps a child list, and every node outside the subtree
\* keeps its record, its parent and its child list (less the removed ids).
C23_RemoveDeletesSubtree ==
    [][last'.op = "remove" =>
          LET gone == Subtree(tree, last'.arg[1])
              Kept(id) == id \notin gone
          IN /\ DOMAIN tree'.nodes = DOMAIN tree.nodes \ gone
             /\ \A c \in DOMAIN tree'.parent_map :
                   c \notin gone /\ tree'.parent_map[c] \notin gone
             /\ \A p \in DOMAIN tree'.children_map :
                   /\ p \notin gone
                   /\ \A i \in 1..Len(tree'.children_map[p]) :
                         tree'.children_map[p][i] \notin gone
             /\ \A id \in DOMAIN tree'.nodes : tree'.nodes[id] = tree.nodes[id]
             /\ \A id \in (TreeIds \cup DOMAIN tree.parent_map) \ gone :
                   parent(tree', id) = parent(tree, id)
             /\ \A id \in (TreeIds \cup DOMAIN tree.children_map) \ gone :
                   children(tree', id) = SelectSeq(children(tree, id), Kept)
      ]_vars

\* C23 witness: within two operations on the keyed siblings, a shape and the
\* shape parented under it have been removed and the third is still a child
\* of the frame
C23_Witness ==
    /\ last.op = "remove"
    /\ ops = 2
    /\ DOMAIN tree.nodes = {FrameId, ThirdId}
    /\ children(tree, FrameId) = <<ThirdId>>
    /\ parent(tree, ThirdId) = Some(FrameId)

\* C24: remove(id) for an id that is not in the node mapping leaves the tree
\* (node mapping, root, parent index, children index) unchanged, and so does
\* a remove(id) that follows a remove(id).
C24_RemoveIdempotent ==
    [][/\ (last'.op = "remove" /\ last'.arg[1] \notin DOMAIN tree.nodes) => tree' = tree
       /\ (last.op = "remove" /\ last'.op = "remove" /\ last'.arg = last.arg) => tree' = tree
      ]_vars

\* The number of places of list that hold x
Occurrences(list, x) == Cardinality({i \in 1..Len(list) : list[i] = x})

\* C25: after set_parent(child, parent), parent(child) = parent,
\* children(parent) lists child exactly once, and the list of child's previous
\* parent, when that is another node, no longer lists child.
C25_SetParentLinksOnce ==
    [][last'.op = "set_parent" =>
          LET child == last'.arg[1]
              new_parent == last'.arg[2]
          IN /\ parent(tree', child) = Some(new_parent)
             /\ Occurrences(children(tree', new_parent), child) = 1
             /\ \A p \in (TreeIds \cup DOMAIN tree'.children_map) \ {new_parent} :
                   Occurrences(children(tree', p), child) = 0
      ]_vars

\* C25 witness: set_parent has been called for a child that was already
\* listed under that parent, among other children
C25_Witness ==
    /\ last.op = "set_parent"
    /\ ops = 1
    /\ last.arg[2] = FrameId
    /\ last.arg[1] = FirstId
    /\ Len(children(tree, FrameId)) = 3

\* C26: within every parent's child list no two siblings have equal order
\* keys, so that the keys order the siblings strictly.
C26_SiblingKeysDistinct ==
    \A p \in DOMAIN tree.children_map :
        \A i, k \in 1..Len(tree.children_map[p]) :
            (/\ i < k
             /\ {tree.children_map[p][i], tree.children_map[p][k]} \subseteq DOMAIN tree.nodes)
            => tree.nodes[tree.children_map[p][i]].order_index
                  # tree.nodes[tree.children_map[p][k]].order_index

\* C27: for two order keys a < b, each of MaxInsertions successive
\* insertions at the place between them gets a key strictly between the two
\* keys it is computed from, under key comparison.
C27_MidpointStrictlyBetween ==
    [][(last'.op \in {"insert_below", "insert_above"} /\ ops' <= MaxInsertions) =>
          /\ str_lt(last'.arg[1], last'.ret.v)
          /\ str_lt(last'.ret.v, last'.arg[2])
      ]_vars

\* C28: insert(node) stores the node under its id and leaves every other
\* stored node as it was; the node becomes the root exactly when no node was
\* stored before the call, otherwise the root is unchanged; the parent and
\* children indices are unchanged.
C28_InsertAddsNodeOnly ==
    [][last'.op = "insert" =>
          LET id == last'.arg[1]
          IN /\ id \in DOMAIN tree'.nodes
             /\ tree'.nodes[id].id = id
             /\ tree'.nodes[id].order_index = last'.arg[2]
             /\ DOMAIN tree'.nodes = DOMAIN tree.nodes \cup {id}
             /\ \A other \in DOMAIN tree.nodes \ {id} : tree'.nodes[other] = tree.nodes[other]
             /\ tree'.root_id = (IF DOMAIN tree.nodes = {} THEN id ELSE tree.root_id)
             /\ tree'.parent_map = tree.parent_map
             /\ tree'.children_map = tree.children_map
      ]_vars

\* An insert into a tree that had a root and a child list: the root is kept
C28_Witness ==
    /\ last.op = "insert"
    /\ last.arg[1] \in DOMAIN tree.nodes
    /\ tree.root_id # last.arg[1]
    /\ tree.root_id \in DOMAIN tree.nodes
    /\ tree.children_map # <<>>

\* C29: parent(id) is none whenever id is the root or is absent from the
\* node mapping, after any sequence of tree operations; children(p) is the
\* empty sequence whenever no id has p as its parent.
C29_RootAndAbsentHaveNoParent ==
    /\ \A id \in TreeIds \cup {tree.root_id} :
          (id = tree.root_id \/ id \notin DOMAIN tree.nodes) => parent(tree, id) = None
    /\ \A p \in TreeIds \cup {tree.root_id} :
          (\A c \in TreeIds : parent(tree, c) # Some(p)) => children(tree, p) = <<>>

\* The page of a document: the first child of its root
PageOf(t) == first_page(t).v

\* C30: a new Document holds exactly a root and one page with
\* children(root) = [page]; create_frame on it gives children(page) = [frame];
\* create_rectangle(frame, 10, 20, 100, 50) after that gives
\* children(frame) = [rectangle], and the rectangle stores the default gray
\* (0.8, 0.8, 0.8, opaque) as its fill color.
C30_EndToEnd ==
    /\ (/\ Cardinality(DOMAIN tree.nodes) = 2
        /\ tree.root_id \in DOMAIN tree.nodes
        /\ first_page(tree).some
        /\ DOMAIN tree.nodes = {tree.root_id, PageOf(tree)}
        /\ tree.nodes[tree.root_id].node_type = "Document"
        /\ tree.nodes[PageOf(tree)].node_type = "Page"
        /\ children(tree, tree.root_id) = <<PageOf(tree)>>)
    /\ [][/\ (last.op = "new" /\ last'.op = "create_frame") =>
                /\ children(tree', PageOf(tree)) = <<last'.ret.v>>
                /\ children(tree', tree'.root_id) = <<PageOf(tree)>>
                /\ tree'.nodes[last'.ret.v].node_type = "Frame"
          /\ (/\ last.op = "create_frame"
              /\ version = 2
              /\ last'.op = "create_rectangle"
              /\ last'.arg = <<last.ret.v, 10, 20, 100, 50>>) =>
                /\ children(tree', last.ret.v) = <<last'.ret.v>>
                /\ children(tree', PageOf(tree)) = <<last.ret.v>>
                /\ tree'.nodes[last'.ret.v].node_type = "Rectangle"
                /\ Node_get_property(tree'.nodes[last'.ret.v], "FillColor")
                      = Some(PV_Color(Color_new(8, 8, 8, 10)))
                /\ Node_get_property(tree'.nodes[last'.ret.v], "X") = Some(PV_Float(10))
                /\ Node_get_property(tree'.nodes[last'.ret.v], "Y") = Some(PV_Float(20))
                /\ Node_get_property(tree'.nodes[last'.ret.v], "Width") = Some(PV_Float(100))
                /\ Node_get_property(tree'.nodes[last'.ret.v], "Height") = Some(PV_Float(50))
        ]_vars

\* The scenario run to the end: root, page, frame and rectangle, the
\* rectangle created under the frame with the scenario's position and size
C30_Witness ==
    /\ last.op = "create_rectangle"
    /\ version = 3
    /\ Cardinality(DOMAIN tree.nodes) = 4
    /\ last.arg[1] \in DOMAIN tree.nodes
    /\ tree.nodes[last.arg[1]].node_type = "Frame"
    /\ last.arg = <<last.arg[1], 10, 20, 100, 50>>
    /\ children(tree, PageOf(tree)) = <<last.arg[1]>>
    /\ children(tree, last.arg[1]) = <<last.ret.v>>

\* C31: decoding an encoded Node, PropertyValue or Message (every variant)
\* gives back a value equal to the original in every field.
C31_RoundTrip ==
    last.op \in {"message_round_trip", "value_round_trip", "node_round_trip"} =>
        last.ret = Some(last.arg)

\* C32: processing an Ack changes only the pending set: the document (tree
\* and version) and the rest of the engine are unchanged, so a remote
\* PropertyChange that was dropped is not applied when the Ack arrives and
\* the tree keeps the value it held for (O, P).
C32_AckLeavesDocument ==
    [][Processed(last', "Ack") =>
          /\ tree' = tree
          /\ version' = version
          /\ UNCHANGED <<client_id, sequence, cursors, connected>>
          /\ \A p \in Properties : Stored(tree', PageId, p) = Stored(tree, PageId, p)
          /\ last'.ret = None
      ]_vars

\* An Ack has retired the pending change to (page, X), and the page still
\* holds the local value of X
C32_Witness ==
    /\ Processed(last, "Ack")
    /\ <<PageId, "X">> \in last.removed
    /\ ~PendingFor(pending_changes, PageId, "X")
    /\ Stored(tree, PageId, "X") = Some(PV_Float(1))

\* The indices of the pending entries for (object_id, property)
EntriesFor(pending, object_id, property) ==
    {i \in 1..Len(pending) :
        pending[i].object_id = object_id /\ pending[i].property = property}

\* C33: registering (O, P) as pending while it is pending already adds a
\* second entry under a different sequence; a remote PropertyChange for
\* (O, P) is dropped as long as one of the entries is left, and an Ack for
\* one of two entries leaves the other, so the key stays pending.
C33_DuplicateEntriesKeepKeyPending ==
    [][/\ last'.op = "add_pending_change" =>
             LET o == last'.arg[1]
                 p == last'.arg[2]
             IN /\ EntriesFor(pending_changes', o, p)
                      = EntriesFor(pending_changes, o, p) \cup {Len(pending_changes) + 1}
                /\ \A i \in EntriesFor(pending_changes, o, p) :
                      /\ pending_changes'[i] = pending_changes[i]
                      /\ pending_changes'[i].sequence
                            # pending_changes'[Len(pending_changes')].sequence
       /\ Processed(last', "PropertyChange") =>
             LET m == from_json(last'.arg).v
             IN EntriesFor(pending_changes, m.object_id, m.property) # {} =>
                   /\ tree' = tree
                   /\ version' = version
                   /\ pending_changes' = pending_changes
       /\ Processed(last', "Ack") =>
             \A o \in {PageId}, p \in Properties :
                 LET before == EntriesFor(pending_changes, o, p)
                     acked == {i \in before :
                                  pending_changes[i].sequence = from_json(last'.arg).v.sequence}
                 IN /\ Cardinality(EntriesFor(pending_changes', o, p))
                          = Cardinality(before) - Cardinality(acked)
                    /\ Cardinality(before) = 2 => Cardinality(acked) <= 1
      ]_vars

\* An Ack has retired one entry for (page, X) and another entry for (page, X)
\* is still pending
C33_Witness ==
    /\ Processed(last, "Ack")
    /\ <<PageId, "X">> \in last.removed
    /\ EntriesFor(pending_changes, PageId, "X") # {}

\* C34: insert of a node whose id is stored already replaces the stored node
\* by the new one; the set of stored ids, the other nodes, the root and both
\* indices are unchanged.
C34_ReinsertReplaces ==
    [][(last'.op = "insert" /\ last'.arg[1] \in DOMAIN tree.nodes) =>
          LET id == last'.arg[1]
          IN /\ tree'.nodes[id] = [Node_new(id, "Rectangle") EXCEPT !.order_index = last'.arg[2]]
             /\ DOMAIN tree'.nodes = DOMAIN tree.nodes
             /\ \A other \in DOMAIN tree.nodes \ {id} : tree'.nodes[other] = tree.nodes[other]
             /\ tree'.root_id = tree.root_id
             /\ tree'.parent_map = tree.parent_map
             /\ tree'.children_map = tree.children_map
      ]_vars

\* The first of two shapes stored with the key of Node::new was inserted again
\* with another key: it holds the new key and is still listed under the frame
C34_Witness ==
    /\ last.op = "insert"
    /\ ops = 1
    /\ last.arg[1] = FirstId
    /\ DOMAIN tree.nodes = {FrameId, FirstId, SecondId}
    /\ tree.nodes[FirstId].order_index = InsertKey(FirstId)
    /\ tree.nodes[FirstId].order_index # DefaultOrderIndex
    /\ children(tree, FrameId) = <<FirstId, SecondId>>

\* The ids whose stored node differs between trees t and u
ChangedNodes(t, u) ==
    {id \in DOMAIN t.nodes \cap DOMAIN u.nodes : t.nodes[id] # u.nodes[id]}

\* C35: process_message never changes the structure of the tree, whatever the
\* message: the node ids, the root, both indices and every node's type and
\* order key stay; the only change to the document is one property set on one
\* stored node by a PropertyChange; CreateObject, DeleteObject, MoveObject and
\* Pong change nothing and return nothing.
C35_MessagesKeepTreeStructure ==
    [][last'.op = "process_message" =>
          /\ DOMAIN tree'.nodes = DOMAIN tree.nodes
          /\ tree'.root_id = tree.root_id
          /\ tree'.parent_map = tree.parent_map
          /\ tree'.children_map = tree.children_map
          /\ \A id \in DOMAIN tree.nodes :
                /\ tree'.nodes[id].id = tree.nodes[id].id
                /\ tree'.nodes[id].node_type = tree.nodes[id].node_type
                /\ tree'.nodes[id].order_index = tree.nodes[id].order_index
          /\ Cardinality(ChangedNodes(tree, tree')) <= 1
          /\ (tree' # tree \/ version' # version) =>
                /\ Processed(last', "PropertyChange")
                /\ LET m == from_json(last'.arg).v
                       before == tree.nodes[m.object_id].properties
                       after == tree'.nodes[m.object_id].properties
                   IN /\ m.object_id \in DOMAIN tree.nodes
                      /\ ChangedNodes(tree, tree') \subseteq {m.object_id}
                      /\ DOMAIN after = DOMAIN before \cup {m.property}
                      /\ \A q \in DOMAIN before \ {m.property} : after[q] = before[q]
          /\ (\E type \in {"CreateObject", "DeleteObject", "MoveObject", "Pong"} :
                 Processed(last', type)) =>
                /\ EngineAndDocumentUnchanged
                /\ last'.ret = None
      ]_vars

\* A DeleteObject naming the page has been processed after a PropertyChange
\* was applied to the page: the page is still stored, under the root
C35_Witness ==
    /\ Processed(last, "DeleteObject")
    /\ from_json(last.arg).v.object_id = PageId
    /\ Stored(tree, PageId, "X") = Some(PV_Float(2))
    /\ PageId \in DOMAIN tree.nodes
    /\ children(tree, RootId) = <<PageId>>

\* C36: in every reachable engine state, a Connected engine holds an assigned
\* client identity.
C36_ConnectedImpliesIdentity == connected => client_id.some

\* The pending entries carry pairwise distinct sequences between 1 and the
\* sequence counter
PendingSequencesDistinct ==
    /\ \A i, k \in 1..Len(pending_changes) :
          i # k => pending_changes[i].sequence # pending_changes[k].sequence
    /\ \A i \in 1..Len(pending_changes) :
          /\ pending_changes[i].sequence >= 1
          /\ pending_changes[i].sequence <= sequence

\* C37: in every reachable engine state the pending entries have pairwise
\* distinct sequences, each at least 1 and at most the sequence counter; no
\* step decreases the counter (a disconnect and a JoinAck included), and an
\* Ack removes at most one pending entry.
C37_PendingSequencesDistinct ==
    /\ PendingSequencesDistinct
    /\ [][/\ PendingSequencesDistinct'
          /\ sequence' >= sequence
          /\ Processed(last', "Ack") => Len(pending_changes') >= Len(pending_changes) - 1
        ]_vars

\* An Ack has retired one of two pending entries
C37_Witness ==
    /\ Processed(last, "Ack")
    /\ last.removed # {}
    /\ Len(pending_changes) = 1
    /\ sequence = 2

\* C38: set_connected and a JoinAck change only the connection status and the
\* client identity: a disconnect leaves the engine Disconnected without an
\* identity, a JoinAck Connected with the identity it carries, and the pending
\* set, the sequence counter, the peer cursors and the document are as before,
\* so a key pending before the disconnect is pending after the reconnect.
C38_ReconnectKeepsPending ==
    [][/\ last'.op = "set_connected" =>
             /\ connected' = last'.arg
             /\ ~last'.arg => client_id' = None
             /\ UNCHANGED <<pending_changes, sequence, cursors, tree, version>>
       /\ Processed(last', "JoinAck") =>
             /\ connected'
             /\ client_id' = Some(from_json(last'.arg).v.client_id)
             /\ UNCHANGED <<pending_changes, sequence, cursors, tree, version>>
             /\ \A p \in Properties :
                   PendingFor(pending_changes', PageId, p) = PendingFor(pending_changes, PageId, p)
      ]_vars

\* A JoinAck has reconnected an engine that had emitted a change under an
\* earlier identity and was disconnected since, and its pending change to
\* (page, X) and the peer cursor are still there
C38_Witness ==
    /\ Processed(last, "JoinAck")
    /\ ~last.pre.connected
    /\ ~last.pre.identified
    /\ emitted > 0
    /\ connected
    /\ PendingFor(pending_changes, PageId, "X")
    /\ DOMAIN cursors # {}

\* C39: remove(id) returns on every tree the operations reach, also when
\* set_parent has put id on a parent cycle (id parented to itself or to one of
\* its descendants); every id of the cycle is then gone from the node mapping
\* and from both indices.
C39_RemoveEndsOnCycles ==
    [][last'.op = "remove" =>
          /\ last'.arg[1] \notin DOMAIN tree'.nodes
          /\ \A m \in ParentCycle(tree, last'.arg[1]) :
                /\ m \notin DOMAIN tree'.nodes
                /\ m \notin DOMAIN tree'.parent_map
                /\ m \notin DOMAIN tree'.children_map
                /\ \A c \in DOMAIN tree'.parent_map : tree'.parent_map[c] # m
                /\ \A p \in DOMAIN tree'.children_map : ~Listed(tree', p, m)
      ]_vars

\* remove has run on a shape that was on a parent cycle with another shape
\* stored in the tree
C39_Witness ==
    /\ last.op = "remove"
    /\ Cardinality(last.removed) = 2
    /\ last.arg[1] \in last.removed
    /\ FrameId \in DOMAIN tree.nodes
    /\ last.removed \cap DOMAIN tree.nodes = {}

\* C40: whenever the node mapping is not empty, root_id() names a node that
\* is in the node mapping.
C40_RootIsStored == DOMAIN tree.nodes # {} => tree.root_id \in DOMAIN tree.nodes

====
